---- MODULE Spec2Model ----
(***************************************************************************)
(* Ultimate Tic-Tac-Toe: the rules engine of src/ultimate_tictactoe.py     *)
(* (classes SubBoard and UltimateTicTacToe) as a state machine.            *)
(*                                                                         *)
(* The game object is the state; make_move is the one operation that       *)
(* changes it, and the main loop clears just_ended after reading it.       *)
(* The pure part of every method is an operator over records, so that the  *)
(* same definitions serve the state machine and any search over positions. *)
(***************************************************************************)
EXTENDS Integers, Sequences, FiniteSets, TLC

\* ------------------------------------------------------------------------
\* Values
\* ------------------------------------------------------------------------

\* Python's None in a cell or a winner field.
None == "None"

\* Python's None in active_board ("any board is valid").
NoBoard == <<>>

\* range(3)
Idx == 0..2

\* (row, col) pairs, of sub-boards in the game and of cells in a sub-board.
Pos == Idx \X Idx

\* The two player symbols.
Players == {"X", "O"}

\* The arguments of a make_move call: (board_row, board_col, cell_row, cell_col).
Args == Idx \X Idx \X Idx \X Idx

\* No accepted call yet.
NoMove == <<>>

\* ------------------------------------------------------------------------
\* SubBoard
\* ------------------------------------------------------------------------

\* SubBoard.__init__: nine empty cells, no winner.
SubBoard_init == [cells |-> [p \in Pos |-> None], winner |-> None]

\* SubBoard._check_winner with the columns forgotten.
SubBoard_check_winner_no_columns(sb) ==
    LET c == sb.cells
        rows == {r \in Idx : c[<<r, 0>>] # None /\ c[<<r, 0>>] = c[<<r, 1>>]
                                               /\ c[<<r, 1>>] = c[<<r, 2>>]}
        first(S) == CHOOSE x \in S : \A y \in S : x <= y
    IN  IF rows # {} THEN [sb EXCEPT !.winner = c[<<first(rows), 0>>]]
        ELSE IF c[<<1, 1>>] # None
                /\ c[<<0, 0>>] = c[<<1, 1>>] /\ c[<<1, 1>>] = c[<<2, 2>>]
             THEN [sb EXCEPT !.winner = c[<<1, 1>>]]
        ELSE IF c[<<1, 1>>] # None
                /\ c[<<0, 2>>] = c[<<1, 1>>] /\ c[<<1, 1>>] = c[<<2, 0>>]
             THEN [sb EXCEPT !.winner = c[<<1, 1>>]]
        ELSE sb

\* SubBoard._check_winner: rows, then columns, then the two diagonals; the
\* first complete line sets winner, and without one winner is left alone.
SubBoard_check_winner(sb) ==
    LET c == sb.cells
        rows == {r \in Idx : c[<<r, 0>>] # None /\ c[<<r, 0>>] = c[<<r, 1>>]
                                               /\ c[<<r, 1>>] = c[<<r, 2>>]}
        cols == {q \in Idx : c[<<0, q>>] # None /\ c[<<0, q>>] = c[<<1, q>>]
                                               /\ c[<<1, q>>] = c[<<2, q>>]}
        first(S) == CHOOSE x \in S : \A y \in S : x <= y
    IN  IF rows # {} THEN [sb EXCEPT !.winner = c[<<first(rows), 0>>]]
        ELSE IF cols # {} THEN [sb EXCEPT !.winner = c[<<0, first(cols)>>]]
        ELSE IF c[<<1, 1>>] # None
                /\ c[<<0, 0>>] = c[<<1, 1>>] /\ c[<<1, 1>>] = c[<<2, 2>>]
             THEN [sb EXCEPT !.winner = c[<<1, 1>>]]
        ELSE IF c[<<1, 1>>] # None
                /\ c[<<0, 2>>] = c[<<1, 1>>] /\ c[<<1, 1>>] = c[<<2, 0>>]
             THEN [sb EXCEPT !.winner = c[<<1, 1>>]]
        ELSE sb

\* SubBoard.make_move with the mark written before the tests: a rejected
\* call has already replaced the cell.
SubBoard_make_move_writes_first(sb, row, col, player) ==
    LET w == [sb EXCEPT !.cells[<<row, col>>] = player]
    IN  IF sb.cells[<<row, col>>] = None /\ sb.winner = None
        THEN [ret |-> TRUE, sb |-> SubBoard_check_winner(w)]
        ELSE [ret |-> FALSE, sb |-> w]

\* SubBoard.make_move without the test of the cell: an occupied cell of a
\* sub-board without a winner is taken over.
SubBoard_make_move_overwrites(sb, row, col, player) ==
    IF sb.winner = None
    THEN [ret |-> TRUE,
          sb  |-> SubBoard_check_winner([sb EXCEPT !.cells[<<row, col>>] = player])]
    ELSE [ret |-> FALSE, sb |-> sb]

\* SubBoard.make_move without the call of _check_winner: the mark is
\* written and the winner is never looked for.
SubBoard_make_move_no_check(sb, row, col, player) ==
    IF sb.cells[<<row, col>>] = None /\ sb.winner = None
    THEN [ret |-> TRUE, sb |-> [sb EXCEPT !.cells[<<row, col>>] = player]]
    ELSE [ret |-> FALSE, sb |-> sb]

\* SubBoard.make_move: the return value and the sub-board after the call.
SubBoard_make_move(sb, row, col, player) ==
    IF sb.cells[<<row, col>>] = None /\ sb.winner = None
    THEN [ret |-> TRUE,
          sb  |-> SubBoard_check_winner([sb EXCEPT !.cells[<<row, col>>] = player])]
    ELSE [ret |-> FALSE, sb |-> sb]

\* SubBoard.is_full
is_full(sb) == \A p \in Pos : sb.cells[p] # None

\* SubBoard.is_playable
is_playable(sb) == sb.winner = None /\ ~is_full(sb)

\* ------------------------------------------------------------------------
\* UltimateTicTacToe
\* ------------------------------------------------------------------------

\* UltimateTicTacToe.__init__
Game_init ==
    [sub_boards     |-> [b \in Pos |-> SubBoard_init],
     current_player |-> "X",
     active_board   |-> NoBoard,
     winner         |-> None,
     game_over      |-> FALSE,
     just_ended     |-> FALSE]

\* UltimateTicTacToe._check_winner with the draw test forgotten: a game
\* without a line of sub-boards never ends.
Game_check_winner_no_draw(g) ==
    LET w == [b \in Pos |-> g.sub_boards[b].winner]
        rows == {r \in Idx : w[<<r, 0>>] # None /\ w[<<r, 0>>] = w[<<r, 1>>]
                                               /\ w[<<r, 1>>] = w[<<r, 2>>]}
        cols == {q \in Idx : w[<<0, q>>] # None /\ w[<<0, q>>] = w[<<1, q>>]
                                               /\ w[<<1, q>>] = w[<<2, q>>]}
        first(S) == CHOOSE x \in S : \A y \in S : x <= y
        won(p) == [g EXCEPT !.winner = p, !.game_over = TRUE]
    IN  IF rows # {} THEN won(w[<<first(rows), 0>>])
        ELSE IF cols # {} THEN won(w[<<0, first(cols)>>])
        ELSE IF w[<<1, 1>>] # None
                /\ w[<<0, 0>>] = w[<<1, 1>>] /\ w[<<1, 1>>] = w[<<2, 2>>]
             THEN won(w[<<1, 1>>])
        ELSE IF w[<<1, 1>>] # None
                /\ w[<<0, 2>>] = w[<<1, 1>>] /\ w[<<1, 1>>] = w[<<2, 0>>]
             THEN won(w[<<1, 1>>])
        ELSE g

\* UltimateTicTacToe._check_winner with the draw test placed first: a game
\* whose sub-boards are all closed is over before any line is looked for.
Game_check_winner_draw_first(g) ==
    LET w == [b \in Pos |-> g.sub_boards[b].winner]
        rows == {r \in Idx : w[<<r, 0>>] # None /\ w[<<r, 0>>] = w[<<r, 1>>]
                                               /\ w[<<r, 1>>] = w[<<r, 2>>]}
        cols == {q \in Idx : w[<<0, q>>] # None /\ w[<<0, q>>] = w[<<1, q>>]
                                               /\ w[<<1, q>>] = w[<<2, q>>]}
        first(S) == CHOOSE x \in S : \A y \in S : x <= y
        won(p) == [g EXCEPT !.winner = p, !.game_over = TRUE]
    IN  IF \A b \in Pos : ~is_playable(g.sub_boards[b])
        THEN [g EXCEPT !.game_over = TRUE]
        ELSE IF rows # {} THEN won(w[<<first(rows), 0>>])
        ELSE IF cols # {} THEN won(w[<<0, first(cols)>>])
        ELSE IF w[<<1, 1>>] # None
                /\ w[<<0, 0>>] = w[<<1, 1>>] /\ w[<<1, 1>>] = w[<<2, 2>>]
             THEN won(w[<<1, 1>>])
        ELSE IF w[<<1, 1>>] # None
                /\ w[<<0, 2>>] = w[<<1, 1>>] /\ w[<<1, 1>>] = w[<<2, 0>>]
             THEN won(w[<<1, 1>>])
        ELSE g

\* UltimateTicTacToe._check_winner: the grid of sub-board winners is searched
\* for a line (rows, columns, diagonals); only when there is none is the draw
\* (no playable sub-board) looked for.
Game_check_winner(g) ==
    LET w == [b \in Pos |-> g.sub_boards[b].winner]
        rows == {r \in Idx : w[<<r, 0>>] # None /\ w[<<r, 0>>] = w[<<r, 1>>]
                                               /\ w[<<r, 1>>] = w[<<r, 2>>]}
        cols == {q \in Idx : w[<<0, q>>] # None /\ w[<<0, q>>] = w[<<1, q>>]
                                               /\ w[<<1, q>>] = w[<<2, q>>]}
        first(S) == CHOOSE x \in S : \A y \in S : x <= y
        won(p) == [g EXCEPT !.winner = p, !.game_over = TRUE]
    IN  IF rows # {} THEN won(w[<<first(rows), 0>>])
        ELSE IF cols # {} THEN won(w[<<0, first(cols)>>])
        ELSE IF w[<<1, 1>>] # None
                /\ w[<<0, 0>>] = w[<<1, 1>>] /\ w[<<1, 1>>] = w[<<2, 2>>]
             THEN won(w[<<1, 1>>])
        ELSE IF w[<<1, 1>>] # None
                /\ w[<<0, 2>>] = w[<<1, 1>>] /\ w[<<1, 1>>] = w[<<2, 0>>]
             THEN won(w[<<1, 1>>])
        ELSE IF \A b \in Pos : ~is_playable(g.sub_boards[b])
             THEN [g EXCEPT !.game_over = TRUE]
        ELSE g

\* UltimateTicTacToe.is_draw
is_draw(g) == g.game_over /\ g.winner = None

\* The other symbol ('O' if current_player == 'X' else 'X').
Other(p) == IF p = "X" THEN "O" ELSE "X"

\* make_move's three early returns without the first: a finished game still
\* takes moves.
rejects_early_after_end(g, board_row, board_col) ==
    \/ g.active_board # NoBoard /\ <<board_row, board_col>> # g.active_board
    \/ ~is_playable(g.sub_boards[<<board_row, board_col>>])

\* make_move's three early returns without the second: the active board is
\* not looked at.
rejects_early_any_board(g, board_row, board_col) ==
    \/ g.game_over
    \/ ~is_playable(g.sub_boards[<<board_row, board_col>>])

\* UltimateTicTacToe.make_move, its early returns: the game is over, another
\* sub-board is the active one, or the sub-board is not playable.
rejects_early(g, board_row, board_col) ==
    \/ g.game_over
    \/ g.active_board # NoBoard /\ <<board_row, board_col>> # g.active_board
    \/ ~is_playable(g.sub_boards[<<board_row, board_col>>])

\* accepted with the player never switched.
accepted_never_switches(g, was_over, cell_row, cell_col) ==
    LET g2 == Game_check_winner(g)
        g3 == IF g2.game_over /\ ~was_over
              THEN [g2 EXCEPT !.just_ended = TRUE]
              ELSE g2
        next_board == g3.sub_boards[<<cell_row, cell_col>>]
    IN  IF ~g3.game_over
        THEN [g3 EXCEPT !.active_board = IF is_playable(next_board)
                                         THEN <<cell_row, cell_col>>
                                         ELSE NoBoard]
        ELSE g3

\* accepted with the player switched whether or not the game has ended.
accepted_always_switches(g, was_over, cell_row, cell_col) ==
    LET g2 == Game_check_winner(g)
        g3 == IF g2.game_over /\ ~was_over
              THEN [g2 EXCEPT !.just_ended = TRUE]
              ELSE g2
        next_board == g3.sub_boards[<<cell_row, cell_col>>]
        g4 == IF ~g3.game_over
              THEN [g3 EXCEPT !.active_board = IF is_playable(next_board)
                                               THEN <<cell_row, cell_col>>
                                               ELSE NoBoard]
              ELSE g3
    IN  [g4 EXCEPT !.current_player = Other(g3.current_player)]

\* accepted with the next board never tested: the opponent is always sent to
\* the sub-board of the cell that was played.
accepted_always_constrains(g, was_over, cell_row, cell_col) ==
    LET g2 == Game_check_winner(g)
        g3 == IF g2.game_over /\ ~was_over
              THEN [g2 EXCEPT !.just_ended = TRUE]
              ELSE g2
    IN  IF ~g3.game_over
        THEN [g3 EXCEPT !.active_board = <<cell_row, cell_col>>,
                        !.current_player = Other(g3.current_player)]
        ELSE g3

\* accepted with the end-of-game flag forgotten.
accepted_never_raises(g, was_over, cell_row, cell_col) ==
    LET g3 == Game_check_winner(g)
        next_board == g3.sub_boards[<<cell_row, cell_col>>]
    IN  IF ~g3.game_over
        THEN [g3 EXCEPT !.active_board = IF is_playable(next_board)
                                         THEN <<cell_row, cell_col>>
                                         ELSE NoBoard,
                        !.current_player = Other(g3.current_player)]
        ELSE g3

\* UltimateTicTacToe.make_move, after sub_board.make_move has returned True
\* (g holds the new mark): the winner check, just_ended on the transition
\* into game_over, and, while the game goes on, the next active board and
\* the switch of player.
accepted(g, was_over, cell_row, cell_col) ==
    LET g2 == Game_check_winner(g)
        g3 == IF g2.game_over /\ ~was_over
              THEN [g2 EXCEPT !.just_ended = TRUE]
              ELSE g2
        next_board == g3.sub_boards[<<cell_row, cell_col>>]
    IN  IF ~g3.game_over
        THEN [g3 EXCEPT !.active_board = IF is_playable(next_board)
                                         THEN <<cell_row, cell_col>>
                                         ELSE NoBoard,
                        !.current_player = Other(g3.current_player)]
        ELSE g3

\* UltimateTicTacToe.make_move: the return value and the game after the call.
\* The sub-board is changed in place by sub_board.make_move, so the game
\* after a rejected call holds the sub-board that call left.
make_move(g, board_row, board_col, cell_row, cell_col) ==
    IF rejects_early(g, board_row, board_col)
    THEN [ret |-> FALSE, game |-> g]
    ELSE
      LET m == SubBoard_make_move(g.sub_boards[<<board_row, board_col>>],
                                  cell_row, cell_col, g.current_player)
          g1 == [g EXCEPT !.sub_boards[<<board_row, board_col>>] = m.sb]
      IN  IF m.ret
          THEN [ret |-> TRUE, game |-> accepted(g1, g.game_over, cell_row, cell_col)]
          ELSE [ret |-> FALSE, game |-> g1]

\* is_valid_board without the is_playable test: a sub-board that has been
\* won or filled is offered on a free turn.
is_valid_board_ignores_playable(g, board_row, board_col) ==
    IF g.game_over THEN FALSE
    ELSE IF g.active_board = NoBoard THEN TRUE
    ELSE <<board_row, board_col>> = g.active_board

\* is_valid_board without the game_over test.
is_valid_board_ignores_game_over(g, board_row, board_col) ==
    IF ~is_playable(g.sub_boards[<<board_row, board_col>>]) THEN FALSE
    ELSE IF g.active_board = NoBoard THEN TRUE
    ELSE <<board_row, board_col>> = g.active_board

\* UltimateTicTacToe.is_valid_board
is_valid_board(g, board_row, board_col) ==
    IF g.game_over THEN FALSE
    ELSE IF ~is_playable(g.sub_boards[<<board_row, board_col>>]) THEN FALSE
    ELSE IF g.active_board = NoBoard THEN TRUE
    ELSE <<board_row, board_col>> = g.active_board

\* The i-th tuple when the loops over the cells are the outer loops.
LoopTuple_cells_outside(i) == <<(i \div 3) % 3, i % 3, i \div 27, (i \div 9) % 3>>

\* The i-th tuple (i from 0) that the four nested range(3) loops of
\* get_valid_moves visit: br, then bc, then cr, then cc.
LoopTuple(i) == <<i \div 27, (i \div 9) % 3, (i \div 3) % 3, i % 3>>

\* All 81 tuples in the order of the loops.
LoopTuples == [i \in 1..81 |-> LoopTuple(i - 1)]

\* UltimateTicTacToe.get_valid_moves: the list of the empty cells of the
\* valid sub-boards, in the order of the loops.
get_valid_moves(g) ==
    SelectSeq(LoopTuples,
              LAMBDA m : /\ is_valid_board(g, m[1], m[2])
                         /\ g.sub_boards[<<m[1], m[2]>>].cells[<<m[3], m[4]>>] = None)

\* One call game.get_valid_moves(): the list it returns and the game
\* after the call. The method assigns to its local list only.
get_valid_moves_call(g) == [ret |-> get_valid_moves(g), game |-> g]

\* ------------------------------------------------------------------------
\* AIPlayer
\* ------------------------------------------------------------------------

\* The Difficulty enumeration.
Difficulties == {"EASY", "MEDIUM", "BIG_BRAIN"}

\* AIPlayer.player_symbol: main constructs AIPlayer(difficulty, 'O').
player_symbol == "O"

\* float('inf') of the searches, as an integer above every score.
Inf == 1000000

\* max and min of two numbers.
Max(x, y) == IF x >= y THEN x ELSE y
Min(x, y) == IF x <= y THEN x ELSE y

\* The arrays of the search are tuples of rows, so that entry [r, c] of the
\* source is a[r + 1][c + 1] here.

\* AIPlayer._to_numpy: the 9x9 array of the cells with 1 for the AI's
\* symbol, -1 for the other and 0 for empty, the 3x3 array of the sub-board
\* winners in the same code, and the game's active_board.
to_numpy(g) ==
    LET code(v) == IF v = None THEN 0 ELSE IF v = player_symbol THEN 1 ELSE -1
        cell(r, c) == code(g.sub_boards[<<r \div 3, c \div 3>>].cells[<<r % 3, c % 3>>])
        row(r) == << cell(r, 0), cell(r, 1), cell(r, 2), cell(r, 3), cell(r, 4),
                     cell(r, 5), cell(r, 6), cell(r, 7), cell(r, 8) >>
        won(br, bc) == code(g.sub_boards[<<br, bc>>].winner)
    IN  [board |-> << row(0), row(1), row(2), row(3), row(4),
                      row(5), row(6), row(7), row(8) >>,
         macro_board |-> << << won(0, 0), won(0, 1), won(0, 2) >>,
                            << won(1, 0), won(1, 1), won(1, 2) >>,
                            << won(2, 0), won(2, 1), won(2, 2) >> >>,
         active_board |-> g.active_board]

\* board[br*3:(br+1)*3, bc*3:(bc+1)*3]
Slice(board, br, bc) ==
    << SubSeq(board[br * 3 + 1], bc * 3 + 1, bc * 3 + 3),
       SubSeq(board[br * 3 + 2], bc * 3 + 1, bc * 3 + 3),
       SubSeq(board[br * 3 + 3], bc * 3 + 1, bc * 3 + 3) >>

\* The sums of the three rows, the three columns, the diagonal and the
\* anti-diagonal of a 3x3 array.
LineSums(a) ==
    << a[1][1] + a[1][2] + a[1][3],
       a[2][1] + a[2][2] + a[2][3],
       a[3][1] + a[3][2] + a[3][3],
       a[1][1] + a[2][1] + a[3][1],
       a[1][2] + a[2][2] + a[3][2],
       a[1][3] + a[2][3] + a[3][3],
       a[1][1] + a[2][2] + a[3][3],
       a[1][3] + a[2][2] + a[3][1] >>

\* Some line of the 3x3 array sums to v.
AnyLine(a, v) == v \in {LineSums(a)[i] : i \in 1..8}

\* np.all(sb != 0)
AllNonZero(sb) == \A i, j \in 1..3 : sb[i][j] # 0

\* The simulated move that sends the opponent to a full sub-board as long as
\* that sub-board has no owner.
Simulate_ignores_full_target(board, macro_board, m, v) ==
    LET nb == [board EXCEPT ![m[1] * 3 + m[3] + 1][m[2] * 3 + m[4] + 1] = v]
        sb == Slice(nb, m[1], m[2])
        nm == IF AnyLine(sb, 3) \/ AnyLine(sb, -3)
              THEN [macro_board EXCEPT ![m[1] + 1][m[2] + 1] = v]
              ELSE macro_board
    IN  [board |-> nb,
         macro_board |-> nm,
         active_board |-> IF nm[m[3] + 1][m[4] + 1] # 0
                          THEN NoBoard
                          ELSE <<m[3], m[4]>>]

\* One simulated move of the search: the mark v is written at move m, the
\* sub-board is given to v when one of its lines sums to 3 or -3, and the
\* next active board is the cell's sub-board unless that one has an owner
\* or no empty cell.
Simulate(board, macro_board, m, v) ==
    LET nb == [board EXCEPT ![m[1] * 3 + m[3] + 1][m[2] * 3 + m[4] + 1] = v]
        sb == Slice(nb, m[1], m[2])
        nm == IF AnyLine(sb, 3) \/ AnyLine(sb, -3)
              THEN [macro_board EXCEPT ![m[1] + 1][m[2] + 1] = v]
              ELSE macro_board
    IN  [board |-> nb,
         macro_board |-> nm,
         active_board |-> IF nm[m[3] + 1][m[4] + 1] # 0
                             \/ AllNonZero(Slice(nb, m[3], m[4]))
                          THEN NoBoard
                          ELSE <<m[3], m[4]>>]

\* The move list of _minimax_numpy: on a free turn the empty cells of the
\* sub-boards without owner that are not full, otherwise the empty cells of
\* the active board; in the order of the loops.
SearchMoves(board, macro_board, active_board) ==
    IF active_board = NoBoard
    THEN SelectSeq(LoopTuples,
                   LAMBDA m : /\ macro_board[m[1] + 1][m[2] + 1] = 0
                              /\ board[m[1] * 3 + m[3] + 1][m[2] * 3 + m[4] + 1] = 0)
    ELSE SelectSeq(<< <<active_board[1], active_board[2], 0, 0>>,
                      <<active_board[1], active_board[2], 0, 1>>,
                      <<active_board[1], active_board[2], 0, 2>>,
                      <<active_board[1], active_board[2], 1, 0>>,
                      <<active_board[1], active_board[2], 1, 1>>,
                      <<active_board[1], active_board[2], 1, 2>>,
                      <<active_board[1], active_board[2], 2, 0>>,
                      <<active_board[1], active_board[2], 2, 1>>,
                      <<active_board[1], active_board[2], 2, 2>> >>,
                   LAMBDA m : board[m[1] * 3 + m[3] + 1][m[2] * 3 + m[4] + 1] = 0)

\* np.sum of a 3x3 array.
Sum9(a) ==
    a[1][1] + a[1][2] + a[1][3] + a[2][1] + a[2][2] + a[2][3]
    + a[3][1] + a[3][2] + a[3][3]

\* AIPlayer._evaluate_numpy: 500 per sub-board of the balance of owned
\* sub-boards, 50 per line of sub-boards that sums to 2, -50 per line that
\* sums to -2, 2 per cell of the balance of the marks in the sub-boards
\* without owner, and 50 for owning the centre sub-board.
evaluate_numpy(board, macro_board) ==
    LET lines == LineSums(macro_board)
        marks(br, bc) == IF macro_board[br + 1][bc + 1] = 0
                         THEN Sum9(Slice(board, br, bc))
                         ELSE 0
    IN  Sum9(macro_board) * 500
        + Cardinality({i \in 1..8 : lines[i] = 2}) * 50
        - Cardinality({i \in 1..8 : lines[i] = -2}) * 50
        + (marks(0, 0) + marks(0, 1) + marks(0, 2) + marks(1, 0) + marks(1, 1)
           + marks(1, 2) + marks(2, 0) + marks(2, 1) + marks(2, 2)) * 2
        + (IF macro_board[2][2] = 1 THEN 50 ELSE 0)

\* AIPlayer._minimax_numpy and its two loops. A loop is run as its body
\* for moves[lo], ..., moves[hi] in this order, on the loop's variables st;
\* st.done says that the loop has reached its break. The range is halved
\* rather than walked so that a long move list does not nest deeply.
RECURSIVE minimax_numpy(_, _, _, _, _, _, _)
RECURSIVE MaxLoop(_, _, _, _, _, _, _, _)
RECURSIVE MinLoop(_, _, _, _, _, _, _, _)

\* The body of the maximizing loop for moves[i]; st is (alpha, max_score).
MaxBody(board, macro_board, moves, i, depth, beta, st) ==
    LET n == Simulate(board, macro_board, moves[i], 1)
        score == minimax_numpy(n.board, n.macro_board, n.active_board,
                               depth - 1, st.alpha, beta, FALSE)
    IN  [alpha     |-> Max(st.alpha, score),
         max_score |-> Max(st.max_score, score),
         done      |-> beta <= Max(st.alpha, score)]

MaxLoop(board, macro_board, moves, lo, hi, depth, beta, st) ==
    IF st.done THEN st
    ELSE IF lo = hi THEN MaxBody(board, macro_board, moves, lo, depth, beta, st)
    ELSE MaxLoop(board, macro_board, moves, (lo + hi) \div 2 + 1, hi, depth, beta,
                 MaxLoop(board, macro_board, moves, lo, (lo + hi) \div 2,
                         depth, beta, st))

\* The body of the minimizing loop for moves[i]; st is (beta, min_score).
MinBody(board, macro_board, moves, i, depth, alpha, st) ==
    LET n == Simulate(board, macro_board, moves[i], -1)
        score == minimax_numpy(n.board, n.macro_board, n.active_board,
                               depth - 1, alpha, st.beta, TRUE)
    IN  [beta      |-> Min(st.beta, score),
         min_score |-> Min(st.min_score, score),
         done      |-> Min(st.beta, score) <= alpha]

MinLoop(board, macro_board, moves, lo, hi, depth, alpha, st) ==
    IF st.done THEN st
    ELSE IF lo = hi THEN MinBody(board, macro_board, moves, lo, depth, alpha, st)
    ELSE MinLoop(board, macro_board, moves, (lo + hi) \div 2 + 1, hi, depth, alpha,
                 MinLoop(board, macro_board, moves, lo, (lo + hi) \div 2,
                         depth, alpha, st))

minimax_numpy(board, macro_board, active_board, depth, alpha, beta, is_maximizing) ==
    IF AnyLine(macro_board, 3) THEN 1000 + depth
    ELSE IF AnyLine(macro_board, -3) THEN -1000 - depth
    ELSE IF depth <= 0 THEN evaluate_numpy(board, macro_board)
    ELSE LET moves == SearchMoves(board, macro_board, active_board)
         IN  IF moves = <<>> THEN 0
             ELSE IF is_maximizing
             THEN MaxLoop(board, macro_board, moves, 1, Len(moves), depth, beta,
                          [alpha |-> alpha, max_score |-> -Inf, done |-> FALSE]
                         ).max_score
             ELSE MinLoop(board, macro_board, moves, 1, Len(moves), depth, alpha,
                          [beta |-> beta, min_score |-> Inf, done |-> FALSE]
                         ).min_score

\* The root loop body that keeps as best move the cell of the sub-board the
\* move sends the opponent to.
RootBody_returns_target(board, macro_board, moves, i, max_depth, st) ==
    LET n == Simulate(board, macro_board, moves[i], 1)
        score == minimax_numpy(n.board, n.macro_board, n.active_board,
                               max_depth - 1, st.alpha, Inf, FALSE)
    IN  [best_move  |-> IF score > st.best_score
                        THEN <<moves[i][3], moves[i][4], moves[i][1], moves[i][2]>>
                        ELSE st.best_move,
         best_score |-> Max(st.best_score, score),
         alpha      |-> Max(st.alpha, score),
         done       |-> Inf <= Max(st.alpha, score)]

\* The root loop body that also takes a move whose score equals the best
\* score so far.
RootBody_takes_ties(board, macro_board, moves, i, max_depth, st) ==
    LET n == Simulate(board, macro_board, moves[i], 1)
        score == minimax_numpy(n.board, n.macro_board, n.active_board,
                               max_depth - 1, st.alpha, Inf, FALSE)
    IN  [best_move  |-> IF score >= st.best_score THEN moves[i] ELSE st.best_move,
         best_score |-> Max(st.best_score, score),
         alpha      |-> Max(st.alpha, score),
         done       |-> Inf <= Max(st.alpha, score)]

\* The loop over the root moves that _medium_move and _bigbrain_move share;
\* st is (best_move, best_score, alpha), and beta stays float('inf').
RootBody(board, macro_board, moves, i, max_depth, st) ==
    LET n == Simulate(board, macro_board, moves[i], 1)
        score == minimax_numpy(n.board, n.macro_board, n.active_board,
                               max_depth - 1, st.alpha, Inf, FALSE)
    IN  [best_move  |-> IF score > st.best_score THEN moves[i] ELSE st.best_move,
         best_score |-> Max(st.best_score, score),
         alpha      |-> Max(st.alpha, score),
         done       |-> Inf <= Max(st.alpha, score)]

RECURSIVE RootLoop(_, _, _, _, _, _, _)
RootLoop(board, macro_board, moves, lo, hi, max_depth, st) ==
    IF st.done THEN st
    ELSE IF lo = hi THEN RootBody(board, macro_board, moves, lo, max_depth, st)
    ELSE RootLoop(board, macro_board, moves, (lo + hi) \div 2 + 1, hi, max_depth,
                  RootLoop(board, macro_board, moves, lo, (lo + hi) \div 2,
                           max_depth, st))

\* best_move after the root loop over a list of at least one move, NoMove
\* when no move was taken as best.
RootSearch(board, macro_board, moves, max_depth) ==
    RootLoop(board, macro_board, moves, 1, Len(moves), max_depth,
             [best_move |-> NoMove, best_score |-> -Inf, alpha |-> -Inf,
              done |-> FALSE]).best_move

\* AIPlayer._easy_move: random.choice(valid_moves), any element of the list.
easy_move(valid_moves) == {valid_moves[i] : i \in DOMAIN valid_moves}

\* The last line of the searches when it always takes random.choice.
BestOrRandom_always_random(best_move, valid_moves) == easy_move(valid_moves)

\* The last line of _medium_move and _bigbrain_move: best_move if there is
\* one, otherwise random.choice(valid_moves).
BestOrRandom(best_move, valid_moves) ==
    IF best_move # NoMove THEN {best_move} ELSE easy_move(valid_moves)

\* AIPlayer._medium_move: the root loop over valid_moves with max_depth 2.
medium_move(g, valid_moves) ==
    LET t == to_numpy(g)
    IN  BestOrRandom(RootSearch(t.board, t.macro_board, valid_moves, 2),
                     valid_moves)

\* max_depth that is 6 whatever the number of legal moves.
bigbrain_depth_always_six(n_moves) == 6

\* max_depth of _bigbrain_move for n_moves legal moves.
bigbrain_depth(n_moves) ==
    IF n_moves > 30 THEN 4 ELSE IF n_moves > 10 THEN 5 ELSE 6

\* move_score of _bigbrain_move: 2 for the centre cell, 1 for a corner.
move_score(m) ==
    IF m[3] = 1 /\ m[4] = 1 THEN 2
    ELSE IF <<m[3], m[4]>> \in {<<0, 0>>, <<0, 2>>, <<2, 0>>, <<2, 2>>} THEN 1
    ELSE 0

\* The root order without the sort.
SortedMoves_unsorted(valid_moves) == valid_moves

\* valid_moves.sort(key=move_score, reverse=True): the sort is stable, so
\* moves of equal score keep their order.
SortedMoves(valid_moves) ==
    SelectSeq(valid_moves, LAMBDA m : move_score(m) = 2)
    \o SelectSeq(valid_moves, LAMBDA m : move_score(m) = 1)
    \o SelectSeq(valid_moves, LAMBDA m : move_score(m) = 0)

\* AIPlayer._bigbrain_move: the root loop over the sorted moves with the
\* depth that the number of moves selects.
bigbrain_move(g, valid_moves) ==
    LET t == to_numpy(g)
    IN  BestOrRandom(RootSearch(t.board, t.macro_board, SortedMoves(valid_moves),
                                bigbrain_depth(Len(valid_moves))),
                     valid_moves)

\* get_move that returns None on a free turn.
get_move_none_on_free_turn(g, difficulty_) ==
    IF g.game_over \/ g.current_player # player_symbol \/ g.active_board = NoBoard
    THEN {NoMove}
    ELSE easy_move(get_valid_moves(g))

\* AIPlayer.get_move: the values that the call may return, NoMove for None.
get_move(g, difficulty_) ==
    IF g.game_over \/ g.current_player # player_symbol THEN {NoMove}
    ELSE LET valid_moves_ == get_valid_moves(g)
         IN  IF valid_moves_ = <<>> THEN {NoMove}
             ELSE IF difficulty_ = "EASY" THEN easy_move(valid_moves_)
             ELSE IF difficulty_ = "MEDIUM" THEN medium_move(g, valid_moves_)
             ELSE bigbrain_move(g, valid_moves_)

\* get_move that tries its moves on the game itself and leaves the first
\* legal one on the board.
get_move_call_plays_on_game(g, difficulty_) ==
    [ret  |-> get_move(g, difficulty_),
     game |-> IF get_valid_moves(g) = <<>> THEN g
              ELSE make_move(g, get_valid_moves(g)[1][1], get_valid_moves(g)[1][2],
                             get_valid_moves(g)[1][3], get_valid_moves(g)[1][4]).game]

\* One call ai_player.get_move(game): the values it may return and the game
\* after the call. The game is read by get_valid_moves and _to_numpy, and
\* the search writes to copies of the arrays that _to_numpy has built.
get_move_call(g, difficulty_) == [ret |-> get_move(g, difficulty_), game |-> g]

\* ------------------------------------------------------------------------
\* The games that are played
\* ------------------------------------------------------------------------

\* Legal games, as the sequences of make_move arguments that play them from
\* the empty board. Three are complete: O wins the right column of
\* sub-boards with a free move, other sub-boards staying playable; a draw in
\* which one sub-board is full without a winner; X wins with the move that
\* closes the last playable sub-board. The fourth is an opening: X wins
\* sub-board (0,0) by its cell (0,0) while O has two marks in a column of
\* that sub-board, so that O is sent to a sub-board that has just been won.
\* The fifth is an opening in which O answers every move in the centre cell
\* of the sub-board it is sent to and X fills the middle row, the middle
\* column and two corners of sub-board (1,1) around its empty centre.
Scripts ==
    << << <<2,0,1,2>>, <<1,2,2,0>>, <<2,0,0,2>>, <<0,2,1,0>>, <<1,0,2,1>>,
          <<2,1,1,1>>, <<1,1,0,2>>, <<0,2,2,0>>, <<2,0,2,2>>, <<2,2,1,1>>,
          <<1,1,2,2>>, <<2,2,2,1>>, <<2,1,1,2>>, <<1,2,1,2>>, <<1,2,2,2>>,
          <<2,2,0,1>>, <<0,1,1,2>>, <<1,2,1,1>>, <<1,1,1,2>>, <<1,2,0,2>>,
          <<0,2,1,2>>, <<0,2,0,0>> >>,
       << <<0,1,1,1>>, <<1,1,2,0>>, <<2,0,2,1>>, <<2,1,0,1>>, <<0,1,0,0>>,
          <<0,0,1,2>>, <<1,2,2,0>>, <<2,0,2,0>>, <<2,0,0,2>>, <<0,2,1,1>>,
          <<1,1,0,0>>, <<0,0,1,1>>, <<1,1,1,1>>, <<1,1,0,1>>, <<0,1,0,2>>,
          <<0,2,2,2>>, <<2,2,0,2>>, <<0,2,0,0>>, <<0,0,2,0>>, <<2,0,1,2>>,
          <<1,2,2,1>>, <<2,1,2,2>>, <<2,2,1,2>>, <<1,2,1,2>>, <<1,2,2,2>>,
          <<2,2,2,1>>, <<2,1,2,0>>, <<2,0,0,1>>, <<0,1,2,0>>, <<2,0,0,0>>,
          <<0,0,0,0>>, <<0,0,1,0>>, <<1,0,1,1>>, <<1,1,2,2>>, <<2,2,2,2>>,
          <<2,1,1,1>>, <<1,1,2,1>>, <<2,1,2,1>>, <<1,0,2,0>>, <<2,0,1,0>>,
          <<1,0,0,2>>, <<1,1,0,2>>, <<1,1,1,2>>, <<1,1,1,0>> >>,
       << <<1,1,1,0>>, <<1,0,1,0>>, <<1,0,2,1>>, <<2,1,0,0>>, <<0,0,1,1>>,
          <<1,1,2,0>>, <<2,0,2,0>>, <<2,0,1,2>>, <<1,2,2,1>>, <<2,1,1,1>>,
          <<1,1,0,2>>, <<0,2,2,0>>, <<2,0,1,1>>, <<1,1,0,1>>, <<0,1,0,1>>,
          <<0,1,1,1>>, <<1,1,2,1>>, <<2,1,2,2>>, <<2,2,2,0>>, <<2,0,1,0>>,
          <<1,0,1,2>>, <<1,2,2,2>>, <<2,2,1,0>>, <<1,0,2,2>>, <<2,2,0,0>>,
          <<0,0,2,0>>, <<2,0,0,2>>, <<0,2,1,1>>, <<1,1,1,1>>, <<1,1,0,0>>,
          <<0,0,2,1>>, <<0,2,0,2>>, <<0,0,0,1>>, <<0,1,1,2>>, <<1,2,1,1>>,
          <<1,1,2,2>>, <<1,0,1,1>>, <<1,1,1,2>>, <<1,2,0,1>>, <<0,1,1,0>>,
          <<1,0,0,1>> >>,
       << <<0,0,1,0>>, <<1,0,0,0>>, <<0,0,2,0>>, <<2,0,2,2>>, <<2,2,2,1>>,
          <<2,1,2,0>>, <<2,0,0,0>>, <<0,0,2,1>>, <<2,1,0,0>>, <<0,0,1,1>>,
          <<1,1,1,1>>, <<1,1,0,0>>, <<0,0,0,0>> >>,
       << <<1,1,1,0>>, <<1,0,1,1>>, <<1,1,1,2>>, <<1,2,1,1>>, <<1,1,0,1>>,
          <<0,1,1,1>>, <<1,1,2,1>>, <<2,1,1,1>>, <<1,1,0,0>>, <<0,0,1,1>>,
          <<1,1,2,2>>, <<2,2,1,1>>, <<1,1,1,1>> >> >>

\* The games in which the AI is asked for moves: the games above; a game in
\* which every move of O is the one that Medium returns and, after 25 moves,
\* O owns sub-boards (0,2) and (1,1) and is to move in sub-board (2,0), where
\* (2,0,1,1) and (2,0,2,2) win the sub-board and with it the game; a drawn
\* game that goes through an endgame with few empty cells; and a game in
\* which sub-board (2,2) is full without a winner after 23 moves and the
\* move (2,0,2,2) of O sends X to it, so that X moves freely.
AIScripts ==
    Scripts \o
    <<<< <<0,0,1,1>>, <<1,1,0,0>>, <<0,0,0,2>>, <<0,2,0,1>>, <<0,1,0,2>>,
          <<0,2,0,2>>, <<0,2,1,2>>, <<1,2,0,1>>, <<0,1,2,0>>, <<2,0,0,2>>,
          <<0,2,2,1>>, <<2,1,0,2>>, <<0,2,2,0>>, <<2,0,1,0>>, <<1,0,0,2>>,
          <<0,2,0,0>>, <<0,0,1,0>>, <<1,0,1,0>>, <<1,0,1,1>>, <<1,1,1,1>>,
          <<1,1,0,2>>, <<1,1,2,2>>, <<2,2,2,0>>, <<2,0,1,2>>, <<1,2,2,0>>,
          <<2,0,1,1>> >>,
       << <<0,1,1,1>>, <<1,1,0,2>>, <<0,2,2,2>>, <<2,2,0,0>>, <<0,0,1,1>>,
          <<1,1,0,0>>, <<0,0,0,2>>, <<0,2,0,0>>, <<0,0,2,2>>, <<2,2,1,0>>,
          <<1,0,2,0>>, <<2,0,0,1>>, <<0,1,2,2>>, <<2,2,0,1>>, <<0,1,0,2>>,
          <<0,2,1,2>>, <<1,2,2,0>>, <<2,0,1,1>>, <<1,1,1,0>>, <<1,0,0,1>>,
          <<0,1,0,0>>, <<0,0,2,1>>, <<2,1,0,1>>, <<1,0,1,1>>, <<1,1,1,1>>,
          <<1,1,1,2>>, <<1,2,0,2>>, <<0,2,1,1>>, <<1,1,2,0>>, <<2,0,1,2>>,
          <<1,2,1,1>>, <<1,1,0,1>>, <<2,1,2,2>>, <<2,2,0,2>>, <<0,2,0,1>>,
          <<2,1,2,0>>, <<2,0,2,0>>, <<2,0,0,0>>, <<0,0,1,2>>, <<2,0,2,1>>,
          <<2,1,0,0>>, <<1,0,0,0>>, <<2,1,1,1>>, <<1,0,1,0>>, <<1,0,2,2>>,
          <<0,2,2,0>>, <<0,2,0,2>>, <<0,2,2,1>>, <<1,0,1,2>>, <<1,0,2,1>>,
          <<0,2,1,0>> >>,
       << <<2,2,2,2>>, <<2,2,0,1>>, <<0,1,2,2>>, <<2,2,0,0>>, <<0,0,2,2>>,
          <<2,2,2,1>>, <<2,1,2,2>>, <<2,2,1,2>>, <<1,2,2,2>>, <<2,2,2,0>>,
          <<2,0,0,2>>, <<0,2,2,2>>, <<2,2,1,0>>, <<1,0,2,2>>, <<2,2,0,2>>,
          <<0,2,0,0>>, <<0,0,0,1>>, <<0,1,2,1>>, <<2,1,1,1>>, <<1,1,2,2>>,
          <<2,2,1,1>>, <<1,1,1,1>>, <<1,1,2,0>>, <<2,0,2,2>> >> >>

\* How many accepted moves of one game may leave the script that the game
\* follows: every position within MaxDev accepted moves of a position of a
\* script is explored, with every make_move call tried in each.
MaxDev == 1

\* ------------------------------------------------------------------------
\* The state machine
\* ------------------------------------------------------------------------

VARIABLES
    sub_boards,      \* game.sub_boards: [Pos -> [cells, winner]]
    current_player,  \* game.current_player
    active_board,    \* game.active_board, NoBoard for None
    winner,          \* game.winner
    game_over,       \* game.game_over
    just_ended,      \* game.just_ended
    ret,             \* what the last make_move call returned
    last_move,       \* the arguments of the last accepted make_move call
    plan,            \* the scripts this game has followed so far
    k,               \* accepted moves that followed the script
    dev,             \* accepted moves made after leaving the script
    difficulty,      \* ai_player.difficulty, None when ai_player is None
    move,            \* what the last get_move call returned, NoMove for None
    called,          \* get_move has returned for the game as it is now
    game_id,         \* which UltimateTicTacToe object main's name game is bound to
    main_pc,         \* where main is: in the game loop or in the menus
    ai_waiting,      \* main's local ai_waiting
    ai_thread,       \* main's local ai_thread, None or the Thread object
    ai_result_container,  \* main's local ai_result_container, a list of one
    pc,              \* where the thread is in ai_task and get_move
    t_player,        \* the difficulty of the ai_player that ai_task has read
    t_game,          \* the object that ai_task has read from the name game
    t_frozen,        \* the fields of that object once game is bound to another
    t_valid_moves,   \* valid_moves of the thread's get_move call
    moved,           \* the objects make_move was applied to while the thread
                     \* was alive, each with the thread's place at that time
    stack,           \* the calls of the search that have not returned, the
                     \* root loop first
    alive,           \* how many Thread objects have been started and have
                     \* not ended
    searches,        \* how many threads main has started since the last
                     \* accepted click
    effects,         \* for each game object, the sounds that the end-of-game
                     \* trigger has played for it, in order
    current_step,    \* tutorial.current_step, None when there is no
                     \* TutorialScreen
    step_substep,    \* tutorial.step_substep
    board_history,   \* tutorial.board_history: step -> saved state
    last_move_cell,  \* tutorial.last_move_cell, NoMove for None
    show_constraint_arrow,  \* tutorial.show_constraint_arrow
    next_enabled,    \* tutorial.next_btn.enabled
    practice,        \* accepted clicks on the demo board, in the steps
                     \* that accept any legal move, since the tutorial
                     \* was opened
    backs,           \* clicks on Back that called _previous_step since the
                     \* tutorial was opened
    new_game,        \* the object that game.clone() returned, as a list of
                     \* one; the empty list before the call
    clone_moves      \* accepted make_move calls on that object

game_vars == <<sub_boards, current_player, active_board, winner, game_over,
               just_ended>>

ai_vars == <<difficulty, move, called>>

main_vars == <<game_id, main_pc, ai_waiting, ai_thread, ai_result_container,
               effects>>

thread_vars == <<pc, t_player, t_game, t_frozen, t_valid_moves, moved, stack,
                 alive, searches>>

tutorial_vars == <<current_step, step_substep, board_history, last_move_cell,
                   show_constraint_arrow, next_enabled, practice, backs>>

clone_vars == <<new_game, clone_moves>>

vars == <<sub_boards, current_player, active_board, winner, game_over,
          just_ended, ret, last_move, plan, k, dev, ai_vars, main_vars,
          thread_vars, tutorial_vars, clone_vars>>

\* The game object as one record.
Game ==
    [sub_boards     |-> sub_boards,
     current_player |-> current_player,
     active_board   |-> active_board,
     winner         |-> winner,
     game_over      |-> game_over,
     just_ended     |-> just_ended]

\* main before any AI turn: the first game object, no thread, an empty
\* result container.
NoThread ==
    /\ game_id = 1
    /\ main_pc = "game_loop"
    /\ ai_waiting = FALSE
    /\ ai_thread = None
    /\ ai_result_container = <<NoMove>>
    /\ pc = "idle"
    /\ t_player = None
    /\ t_game = 0
    /\ t_frozen = None
    /\ t_valid_moves = <<>>
    /\ moved = {}
    /\ stack = <<>>
    /\ alive = 0
    /\ searches = 0
    /\ effects = <<<<>>>>

\* clone() has not been called.
NoClone ==
    /\ new_game = <<>>
    /\ clone_moves = 0

\* No TutorialScreen has been constructed.
NoTutorial ==
    /\ current_step = None
    /\ step_substep = 0
    /\ board_history = <<>>
    /\ last_move_cell = NoMove
    /\ show_constraint_arrow = FALSE
    /\ next_enabled = FALSE
    /\ practice = 0
    /\ backs = 0

\* game = UltimateTicTacToe(): the game before any call.
Init ==
    /\ sub_boards = Game_init.sub_boards
    /\ current_player = Game_init.current_player
    /\ active_board = Game_init.active_board
    /\ winner = Game_init.winner
    /\ game_over = Game_init.game_over
    /\ just_ended = Game_init.just_ended
    /\ ret = FALSE
    /\ last_move = NoMove
    /\ plan = DOMAIN Scripts
    /\ k = 0
    /\ dev = 0
    /\ difficulty = None
    /\ move = NoMove
    /\ called = FALSE
    /\ NoThread
    /\ NoTutorial
    /\ NoClone

\* The scripts of which the call is the next move, for a game that has not
\* left its script.
Follows(a) ==
    {p \in plan :
        /\ dev = 0
        /\ k < Len(Scripts[p])
        /\ a = Scripts[p][k + 1]}

\* One call game.make_move(a[1], a[2], a[3], a[4]), accepted or rejected.
\* Every rejected call is made; an accepted one is made when it follows a
\* script or when fewer than MaxDev accepted moves have left it.
MakeMove(a) ==
    \E r \in {make_move(Game, a[1], a[2], a[3], a[4])} :
    LET onPlan == r.ret /\ Follows(a) # {}
    IN
    /\ r.ret => (Follows(a) # {} \/ dev < MaxDev)
    /\ sub_boards' = r.game.sub_boards
    /\ current_player' = r.game.current_player
    /\ active_board' = r.game.active_board
    /\ winner' = r.game.winner
    /\ game_over' = r.game.game_over
    /\ just_ended' = r.game.just_ended
    /\ ret' = r.ret
    /\ last_move' = IF r.ret THEN a ELSE last_move
    /\ plan' = IF onPlan THEN Follows(a) ELSE plan
    /\ k' = IF onPlan THEN k + 1 ELSE k
    /\ dev' = IF r.ret /\ ~onPlan THEN dev + 1 ELSE dev
    /\ UNCHANGED <<tutorial_vars, clone_vars>>
    /\ UNCHANGED <<ai_vars, main_vars, thread_vars>>

\* The main loop's end-of-game trigger: it reads just_ended and clears it.
ClearJustEnded ==
    /\ just_ended
    /\ just_ended' = FALSE
    /\ UNCHANGED <<tutorial_vars, clone_vars>>
    /\ UNCHANGED <<sub_boards, current_player, active_board, winner,
                   game_over, ret, last_move, plan, k, dev, ai_vars,
                   main_vars, thread_vars>>

Next ==
    \/ \E a \in Args : MakeMove(a)
    \/ ClearJustEnded

Spec == Init /\ [][Next]_vars

\* ------------------------------------------------------------------------
\* The games in which the AI is asked
\* ------------------------------------------------------------------------

\* In positions with at most MaxOpen empty cells in playable sub-boards
\* every legal move is played, and Big Brain is asked in each of them.
MaxOpen == 7

\* The empty cells of the playable sub-boards.
OpenCells ==
    {bq \in Pos \X Pos : /\ is_playable(sub_boards[bq[1]])
                         /\ sub_boards[bq[1]].cells[bq[2]] = None}

\* The endgame, in which the games leave their scripts.
Endgame == Cardinality(OpenCells) <= MaxOpen

\* ai_player = AIPlayer(difficulty, 'O') for one of the three difficulties,
\* and a new game.
AIInit ==
    /\ sub_boards = Game_init.sub_boards
    /\ current_player = Game_init.current_player
    /\ active_board = Game_init.active_board
    /\ winner = Game_init.winner
    /\ game_over = Game_init.game_over
    /\ just_ended = Game_init.just_ended
    /\ ret = FALSE
    /\ last_move = NoMove
    /\ plan = DOMAIN AIScripts
    /\ k = 0
    /\ dev = 0
    /\ difficulty \in Difficulties
    /\ move = NoMove
    /\ called = FALSE
    /\ NoThread
    /\ NoTutorial
    /\ NoClone

\* The scripts of which the call is the next move.
AIFollows(a) ==
    {p \in plan : k < Len(AIScripts[p]) /\ a = AIScripts[p][k + 1]}

\* The game after the call make_move(a[1], a[2], a[3], a[4]) that returned
\* r; what get_move returned before is forgotten.
Played(a, r) ==
    /\ sub_boards' = r.game.sub_boards
    /\ current_player' = r.game.current_player
    /\ active_board' = r.game.active_board
    /\ winner' = r.game.winner
    /\ game_over' = r.game.game_over
    /\ just_ended' = r.game.just_ended
    /\ ret' = r.ret
    /\ last_move' = IF r.ret THEN a ELSE last_move
    /\ plan' = IF r.ret THEN AIFollows(a) ELSE plan
    /\ k' = IF r.ret THEN k + 1 ELSE k
    /\ move' = NoMove
    /\ called' = FALSE
    /\ UNCHANGED <<tutorial_vars, clone_vars>>
    /\ UNCHANGED <<dev, difficulty, main_vars, thread_vars>>

\* An accepted call game.make_move(a[1], a[2], a[3], a[4]) by either player:
\* the next move of a script or, in the endgame, any legal move.
ScriptMove ==
    \E endgame \in {Endgame} : \E a \in Args :
        /\ AIFollows(a) # {} \/ endgame
        /\ \E r \in {make_move(Game, a[1], a[2], a[3], a[4])} : r.ret /\ Played(a, r)

\* The positions in which Big Brain is asked: the endgame, and the position
\* before the last move of a script.
BigBrainAsked ==
    \/ Endgame
    \/ \E p \in plan : k + 1 = Len(AIScripts[p])

\* move = ai_player.get_move(game), once in each position.
GetMove ==
    /\ ~called
    /\ difficulty = "BIG_BRAIN" => BigBrainAsked
    /\ \E c \in {get_move_call(Game, difficulty)} :
          /\ move' \in c.ret
          /\ sub_boards' = c.game.sub_boards
          /\ current_player' = c.game.current_player
          /\ active_board' = c.game.active_board
          /\ winner' = c.game.winner
          /\ game_over' = c.game.game_over
          /\ just_ended' = c.game.just_ended
    /\ called' = TRUE
    /\ UNCHANGED <<tutorial_vars, clone_vars>>
    /\ UNCHANGED <<ret, last_move, plan, k, dev, difficulty, main_vars,
                   thread_vars>>

\* if move: game.make_move(*move), with the move that get_move returned for
\* this position.
AIMove ==
    /\ called /\ move # NoMove
    /\ \E r \in {make_move(Game, move[1], move[2], move[3], move[4])} : Played(move, r)

AINext ==
    \/ ScriptMove
    \/ GetMove
    \/ AIMove

AISpec == AIInit /\ [][AINext]_vars

\* ------------------------------------------------------------------------
\* One get_move call, step by step
\* ------------------------------------------------------------------------

\* The calls of get_move that are followed step by step are made in the
\* positions of the games above at most SearchBack moves before the end of
\* a game, by Big Brain in those of them in which it is asked above.
SearchBack == 12

\* The frame of a call that has returned at once with value v.
Returned(board, macro_board, next_active, depth, v) ==
    [kind |-> "return", board |-> board, macro_board |-> macro_board,
     next_active |-> next_active, depth |-> depth, alpha |-> -Inf, beta |-> Inf, moves |-> <<>>, i |-> 1,
     score |-> v, best_move |-> NoMove, done |-> TRUE]

\* The frame of a call _minimax_numpy(board, macro_board, next_active, depth,
\* alpha, beta, is_maximizing) when it reaches its first statement after the
\* move list: either it has returned, or it is before the first iteration of
\* one of its loops with max_score or min_score in score.
Frame(board, macro_board, next_active, depth, alpha, beta, is_maximizing) ==
    IF AnyLine(macro_board, 3)
    THEN Returned(board, macro_board, next_active, depth, 1000 + depth)
    ELSE IF AnyLine(macro_board, -3)
    THEN Returned(board, macro_board, next_active, depth, -1000 - depth)
    ELSE IF depth <= 0
    THEN Returned(board, macro_board, next_active, depth,
                  evaluate_numpy(board, macro_board))
    ELSE LET moves == SearchMoves(board, macro_board, next_active)
         IN  IF moves = <<>>
             THEN Returned(board, macro_board, next_active, depth, 0)
             ELSE [kind |-> IF is_maximizing THEN "max" ELSE "min",
                   board |-> board, macro_board |-> macro_board,
                   next_active |-> next_active,
                   depth |-> depth, alpha |-> alpha, beta |-> beta,
                   moves |-> moves, i |-> 1,
                   score |-> IF is_maximizing THEN -Inf ELSE Inf,
                   best_move |-> NoMove, done |-> FALSE]

\* The frame of _medium_move or _bigbrain_move before the first iteration of
\* the root loop, with best_score in score.
RootFrame(g, difficulty_) ==
    [kind |-> "root", board |-> to_numpy(g).board,
     macro_board |-> to_numpy(g).macro_board,
     next_active |-> to_numpy(g).active_board,
     depth |-> IF difficulty_ = "MEDIUM" THEN 2
               ELSE bigbrain_depth(Len(get_valid_moves(g))),
     alpha |-> -Inf, beta |-> Inf,
     moves |-> IF difficulty_ = "MEDIUM" THEN get_valid_moves(g)
               ELSE SortedMoves(get_valid_moves(g)),
     i |-> 1, score |-> -Inf, best_move |-> NoMove, done |-> FALSE]

\* The call of frame f has returned, or its loop has ended.
Finished(f) == f.kind = "return" \/ f.done \/ f.i > Len(f.moves)

\* The depth that a loop passes on that passes its own.
ChildDepth_same(depth) == depth

\* The depth that a loop passes to the call it makes.
ChildDepth(depth) == depth - 1

\* The call that the loop of frame f makes for its next move.
Callee(f) ==
    LET n == Simulate(f.board, f.macro_board, f.moves[f.i],
                      IF f.kind = "min" THEN -1 ELSE 1)
    IN  Frame(n.board, n.macro_board, n.active_board, ChildDepth(f.depth),
              f.alpha, f.beta, f.kind = "min")

\* The rest of the loop body of frame f once the call has returned score v:
\* the best score, alpha or beta, the break, and the next move.
Resume(f, v) ==
    IF f.kind = "min"
    THEN [f EXCEPT !.score = Min(f.score, v),
                   !.beta = Min(f.beta, v),
                   !.done = Min(f.beta, v) <= f.alpha,
                   !.i = f.i + 1]
    ELSE [f EXCEPT !.score = Max(f.score, v),
                   !.best_move = IF f.kind = "root" /\ v > f.score
                                 THEN f.moves[f.i] ELSE f.best_move,
                   !.alpha = Max(f.alpha, v),
                   !.done = f.beta <= Max(f.alpha, v),
                   !.i = f.i + 1]

\* ai_player of one of the three difficulties, and a new game.
SearchInit == AIInit

\* The next move of a game above, made while no call of get_move is under
\* way.
SearchPlay ==
    /\ ~called /\ stack = <<>>
    /\ \E a \in Args :
          /\ AIFollows(a) # {}
          /\ \E r \in {make_move(Game, a[1], a[2], a[3], a[4])} :
                r.ret /\ Played(a, r)

\* The positions in which get_move is called.
SearchAsked ==
    /\ \E p \in plan : k + SearchBack >= Len(AIScripts[p])
    /\ difficulty = "BIG_BRAIN" => BigBrainAsked

\* get_move up to the call of the search: None when the game is over, when
\* it is not the AI's turn or when there is no legal move, random.choice
\* for Easy, and otherwise the frame of the root loop.
SearchStart ==
    /\ ~called /\ stack = <<>>
    /\ SearchAsked
    /\ IF game_over \/ current_player # player_symbol
          \/ get_valid_moves(Game) = <<>>
       THEN move' = NoMove /\ called' = TRUE /\ stack' = <<>>
       ELSE IF difficulty = "EASY"
       THEN /\ move' \in easy_move(get_valid_moves(Game))
            /\ called' = TRUE
            /\ stack' = <<>>
       ELSE /\ stack' = <<RootFrame(Game, difficulty)>>
            /\ UNCHANGED <<move, called>>
    /\ UNCHANGED <<tutorial_vars, clone_vars>>
    /\ UNCHANGED <<game_vars, ret, last_move, plan, k, dev, difficulty,
                   main_vars, pc, t_player, t_game, t_frozen, t_valid_moves,
                   moved, alive, searches>>

\* The loop of the innermost call simulates its next move and calls
\* _minimax_numpy.
SearchCall ==
    /\ stack # <<>>
    /\ ~Finished(stack[Len(stack)])
    /\ stack' = Append(stack, Callee(stack[Len(stack)]))
    /\ UNCHANGED <<tutorial_vars, clone_vars>>
    /\ UNCHANGED <<game_vars, ret, last_move, plan, k, dev, ai_vars,
                   main_vars, pc, t_player, t_game, t_frozen, t_valid_moves,
                   moved, alive, searches>>

\* The innermost call returns its score to the loop that made it.
SearchReturn ==
    /\ Len(stack) >= 2
    /\ Finished(stack[Len(stack)])
    /\ stack' = SubSeq(stack, 1, Len(stack) - 2)
                 \o <<Resume(stack[Len(stack) - 1], stack[Len(stack)].score)>>
    /\ UNCHANGED <<tutorial_vars, clone_vars>>
    /\ UNCHANGED <<game_vars, ret, last_move, plan, k, dev, ai_vars,
                   main_vars, pc, t_player, t_game, t_frozen, t_valid_moves,
                   moved, alive, searches>>

\* The root loop has ended: return best_move if best_move else
\* random.choice(valid_moves).
SearchFinish ==
    /\ Len(stack) = 1
    /\ Finished(stack[1])
    /\ move' \in BestOrRandom(stack[1].best_move, get_valid_moves(Game))
    /\ called' = TRUE
    /\ stack' = <<>>
    /\ UNCHANGED <<tutorial_vars, clone_vars>>
    /\ UNCHANGED <<game_vars, ret, last_move, plan, k, dev, difficulty,
                   main_vars, pc, t_player, t_game, t_frozen, t_valid_moves,
                   moved, alive, searches>>

SearchNext ==
    \/ SearchPlay
    \/ SearchStart
    \/ SearchCall
    \/ SearchReturn
    \/ SearchFinish

\* A step of the search: a call, a return, or the end of the root loop.
SearchStep == SearchCall \/ SearchReturn \/ SearchFinish

\* A call of the search is under way. One of the three steps can then be
\* taken, and it changes the stack: the innermost call is either finished,
\* and returns, or not, and makes its next call.
SearchRunning == stack # <<>>

\* The interpreter keeps running a call that is under way. This is weak
\* fairness of SearchStep, WF_vars(SearchStep), written with SearchRunning
\* for ENABLED <<SearchStep>>_vars.
SearchFair == []<>(~SearchRunning) \/ []<><<SearchStep>>_vars

SearchSpec == SearchInit /\ [][SearchNext]_vars /\ SearchFair

\* ------------------------------------------------------------------------
\* main: the game loop and the AI thread
\* ------------------------------------------------------------------------

\* How many UltimateTicTacToe objects main creates, how many accepted moves
\* of one game may leave its script, and how many of the legal cells a click
\* off the script may hit.
MaxGames == 2
MaxPly == 1
MaxClicks == 1

\* The difficulty chosen on the difficulty screen. The game loop treats the
\* three difficulties alike; Medium returns one move where Easy returns any
\* legal one, and the search of Big Brain from an almost empty board is out
\* of reach.
MainDifficulties == {"MEDIUM"}

\* The games that the clicks on the first game object follow: the game that
\* O wins by a free move, the drawn game, and a game against Medium in
\* which every move of O is the one that Medium returns and the 24th move,
\* of O, wins the game. The games after a restart or a return to home
\* follow no script.
MainScripts ==
    <<AIScripts[1], AIScripts[2],
      << <<0,1,2,1>>, <<2,1,0,0>>, <<0,0,0,1>>, <<0,1,0,0>>, <<0,0,2,1>>,
          <<2,1,0,1>>, <<0,1,2,0>>, <<2,0,0,2>>, <<0,2,1,1>>, <<1,1,0,2>>,
          <<0,2,2,1>>, <<2,1,0,2>>, <<0,2,0,1>>, <<0,1,1,0>>, <<1,0,0,1>>,
          <<0,1,1,1>>, <<1,1,1,2>>, <<1,2,1,0>>, <<1,0,1,1>>, <<1,1,1,1>>,
          <<1,1,0,1>>, <<0,1,1,2>>, <<1,2,1,1>>, <<1,1,2,0>> >> >>

MainFollows(a) ==
    {p \in plan :
        /\ dev = 0
        /\ k < Len(MainScripts[p])
        /\ a = MainScripts[p][k + 1]}

\* renderer.get_board_and_cell(event.pos): the cells that are clicked are
\* the next cell of a script, the first legal cells, and the cell of the
\* last accepted move.
Clicks ==
    {a \in Args : MainFollows(a) # {}}
    \cup {get_valid_moves(Game)[i] :
             i \in {j \in DOMAIN get_valid_moves(Game) : j <= MaxClicks}}
    \cup ({last_move} \ {NoMove})

\* The game variables after a step are the fields of g.
Becomes(g) ==
    /\ sub_boards' = g.sub_boards
    /\ current_player' = g.current_player
    /\ active_board' = g.active_board
    /\ winner' = g.winner
    /\ game_over' = g.game_over
    /\ just_ended' = g.just_ended

\* The call game.make_move(a[1], a[2], a[3], a[4]) of main that returned r.
MainMoved(a, r) ==
    LET onPlan == r.ret /\ MainFollows(a) # {}
    IN  /\ Becomes(r.game)
        /\ ret' = r.ret
        /\ last_move' = IF r.ret THEN a ELSE last_move
        /\ plan' = IF onPlan THEN MainFollows(a) ELSE plan
        /\ k' = IF onPlan THEN k + 1 ELSE k
        /\ dev' = IF r.ret /\ ~onPlan THEN dev + 1 ELSE dev

\* ai_thread.is_alive()
is_alive == ai_thread # None /\ pc # "done"

\* The object that the thread reads: the one bound to game, or one that
\* game was bound to before.
ThreadGame == IF t_game = game_id THEN Game ELSE t_frozen

\* game = UltimateTicTacToe(): the name game is bound to a new object; the
\* object it was bound to stays as it is, for the thread that has read it.
NewObject ==
    /\ game_id < MaxGames
    /\ game_id' = game_id + 1
    /\ Becomes(Game_init)
    /\ t_frozen' = IF t_game = game_id THEN Game ELSE t_frozen
    /\ plan' = {}
    /\ k' = 0
    /\ dev' = 0
    /\ ai_waiting' = FALSE
    /\ searches' = 0
    /\ effects' = Append(effects, <<>>)

\* main at the entry of its first game loop, with ai_player of one of the
\* difficulties or None for two players.
MainInit ==
    /\ sub_boards = Game_init.sub_boards
    /\ current_player = Game_init.current_player
    /\ active_board = Game_init.active_board
    /\ winner = Game_init.winner
    /\ game_over = Game_init.game_over
    /\ just_ended = Game_init.just_ended
    /\ ret = FALSE
    /\ last_move = NoMove
    /\ plan = DOMAIN MainScripts
    /\ k = 0
    /\ dev = 0
    /\ difficulty \in MainDifficulties \cup {None}
    /\ move = NoMove
    /\ called = FALSE
    /\ NoThread
    /\ NoTutorial
    /\ NoClone

\* A left click that is accepted on either player's turn: the test of
\* current_player is left out.
ClickBoard_any_turn(a) ==
    /\ main_pc = "game_loop"
    /\ \E r \in {make_move(Game, a[1], a[2], a[3], a[4])} :
          /\ r.ret => (MainFollows(a) # {} \/ dev < MaxPly)
          /\ MainMoved(a, r)
          /\ ai_waiting' = IF r.ret /\ difficulty # None /\ ~r.game.game_over
                           THEN TRUE ELSE ai_waiting
          /\ moved' = IF r.ret /\ is_alive
                      THEN moved \cup {<<game_id, pc>>} ELSE moved
          /\ searches' = IF r.ret THEN 0 ELSE searches
    /\ UNCHANGED <<tutorial_vars, clone_vars>>
    /\ UNCHANGED <<ai_vars, game_id, effects, main_pc, ai_thread, ai_result_container,
                   pc, t_player, t_game, t_frozen, t_valid_moves, stack, alive>>

\* A left click on the board: accepted only on the human's turn, and after
\* an accepted move that leaves the game open the AI is waited for.
ClickBoard(a) ==
    /\ main_pc = "game_loop"
    /\ difficulty = None \/ current_player = "X"
    /\ \E r \in {make_move(Game, a[1], a[2], a[3], a[4])} :
          /\ r.ret => (MainFollows(a) # {} \/ dev < MaxPly)
          /\ MainMoved(a, r)
          /\ ai_waiting' = IF r.ret /\ difficulty # None /\ ~r.game.game_over
                           THEN TRUE ELSE ai_waiting
          /\ moved' = IF r.ret /\ is_alive
                      THEN moved \cup {<<game_id, pc>>} ELSE moved
          /\ searches' = IF r.ret THEN 0 ELSE searches
    /\ UNCHANGED <<tutorial_vars, clone_vars>>
    /\ UNCHANGED <<ai_vars, game_id, effects, main_pc, ai_thread, ai_result_container,
                   pc, t_player, t_game, t_frozen, t_valid_moves, stack, alive>>

\* The R key that also forgets the thread: ai_thread = None.
RestartKey_forgets_thread ==
    /\ main_pc = "game_loop"
    /\ NewObject
    /\ ai_thread' = None
    /\ UNCHANGED <<tutorial_vars, clone_vars>>
    /\ UNCHANGED <<ret, last_move, ai_vars, main_pc, ai_result_container, pc,
                   t_player, t_game, t_valid_moves, moved, stack, alive>>

\* The R key: a new game object; ai_thread is left as it is.
RestartKey ==
    /\ main_pc = "game_loop"
    /\ NewObject
    /\ UNCHANGED <<tutorial_vars, clone_vars>>
    /\ UNCHANGED <<ret, last_move, ai_vars, main_pc, ai_thread,
                   ai_result_container, pc, t_player, t_game, t_valid_moves,
                   moved, stack, alive>>

\* The end-of-game trigger on the game g as the handlers of the frame have
\* left it: confetti and 'win' when there is a winner, 'sad' otherwise.
Effect(g) == IF g.winner # None THEN "win" ELSE "sad"

Triggered(g) ==
    IF g.just_ended
    THEN [effects EXCEPT ![game_id] = Append(@, Effect(g))]
    ELSE effects

\* The home button or the E key: game_running = False and return_to_home =
\* True; the frame runs to its end, the end-of-game trigger included, and
\* the game loop is left for the menus.
ReturnToHome ==
    /\ main_pc = "game_loop"
    /\ main_pc' = "mode_select"
    /\ just_ended' = FALSE
    /\ effects' = Triggered(Game)
    /\ UNCHANGED <<tutorial_vars, clone_vars>>
    /\ UNCHANGED <<sub_boards, current_player, active_board, winner, game_over,
                   ret, last_move, plan, k, dev, ai_vars, game_id,
                   ai_waiting, ai_thread, ai_result_container, thread_vars>>

\* ai_player = None after the mode screen.
ResetPlayer ==
    /\ main_pc = "mode_select"
    /\ main_pc' = "difficulty_select"
    /\ difficulty' = None
    /\ UNCHANGED <<tutorial_vars, clone_vars>>
    /\ UNCHANGED <<game_vars, ret, last_move, plan, k, dev, move, called,
                   game_id, effects, ai_waiting, ai_thread, ai_result_container,
                   thread_vars>>

\* ai_player = AIPlayer(difficulty, 'O') in one-player mode.
SelectDifficulty ==
    /\ main_pc = "difficulty_select"
    /\ difficulty = None
    /\ difficulty' \in MainDifficulties
    /\ UNCHANGED <<tutorial_vars, clone_vars>>
    /\ UNCHANGED <<game_vars, ret, last_move, plan, k, dev, move, called,
                   main_vars, thread_vars>>

\* game = UltimateTicTacToe() and ai_waiting = False before the game loop.
NewGame ==
    /\ main_pc = "difficulty_select"
    /\ main_pc' = "game_loop"
    /\ NewObject
    /\ UNCHANGED <<tutorial_vars, clone_vars>>
    /\ UNCHANGED <<ret, last_move, ai_vars, ai_thread, ai_result_container,
                   pc, t_player, t_game, t_valid_moves, moved, stack, alive>>

\* The AI turn when there is no thread: a new result container and a new
\* thread, started.
AIStart ==
    /\ main_pc = "game_loop"
    /\ ai_waiting /\ ~game_over
    /\ ai_thread = None
    /\ ai_result_container' = <<NoMove>>
    /\ ai_thread' = "Thread"
    /\ pc' = "start"
    /\ t_player' = None
    /\ t_game' = 0
    /\ t_frozen' = None
    /\ t_valid_moves' = <<>>
    /\ moved' = {}
    /\ stack' = <<>>
    /\ alive' = alive + 1
    /\ searches' = searches + 1
    /\ UNCHANGED <<tutorial_vars, clone_vars>>
    /\ UNCHANGED <<game_vars, ret, last_move, plan, k, dev, ai_vars, game_id, effects,
                   main_pc, ai_waiting>>

\* The AI turn when the thread has ended: the move in the container is made
\* on the object bound to game, and the thread is forgotten. The
\* end-of-game trigger follows in the same frame.
AIFinish ==
    /\ main_pc = "game_loop"
    /\ ai_waiting /\ ~game_over
    /\ ai_thread # None /\ ~is_alive
    /\ IF ai_result_container[1] # NoMove
       THEN \E r \in {make_move(Game, ai_result_container[1][1],
                                ai_result_container[1][2],
                                ai_result_container[1][3],
                                ai_result_container[1][4])} :
                /\ MainMoved(ai_result_container[1],
                             [r EXCEPT !.game.just_ended = FALSE])
                /\ effects' = Triggered(r.game)
       ELSE /\ just_ended' = FALSE
            /\ effects' = Triggered(Game)
            /\ UNCHANGED <<sub_boards, current_player, active_board, winner,
                           game_over, ret, last_move, plan, k, dev>>
    /\ ai_waiting' = FALSE
    /\ ai_thread' = None
    /\ pc' = "idle"
    /\ t_player' = None
    /\ t_game' = 0
    /\ t_frozen' = None
    /\ t_valid_moves' = <<>>
    /\ moved' = {}
    /\ UNCHANGED <<tutorial_vars, clone_vars>>
    /\ UNCHANGED <<ai_vars, game_id, main_pc, ai_result_container, stack,
                   alive, searches>>

\* The end-of-game trigger that plays the effects and leaves the flag set.
MainClearJustEnded_keeps_flag ==
    /\ main_pc = "game_loop"
    /\ just_ended
    /\ effects' = Triggered(Game)
    /\ UNCHANGED <<tutorial_vars, clone_vars>>
    /\ UNCHANGED <<game_vars, ret, last_move, plan, k, dev, ai_vars, game_id,
                   main_pc, ai_waiting, ai_thread, ai_result_container,
                   thread_vars>>

\* The end-of-game trigger at the end of a frame whose click has ended the
\* game: just_ended is cleared and the effects are played.
MainClearJustEnded ==
    /\ main_pc = "game_loop"
    /\ just_ended
    /\ just_ended' = FALSE
    /\ effects' = Triggered(Game)
    /\ UNCHANGED <<tutorial_vars, clone_vars>>
    /\ UNCHANGED <<sub_boards, current_player, active_board, winner,
                   game_over, ret, last_move, plan, k, dev, ai_vars, game_id,
                   main_pc, ai_waiting, ai_thread, ai_result_container,
                   thread_vars>>

\* return None, or the end of get_move: the value is stored in the container
\* and the thread ends.
Return(m) ==
    /\ ai_result_container' = <<m>>
    /\ pc' = "done"
    /\ alive' = alive - 1

\* ai_task reads the name ai_player; with None the call raises, the
\* exception is caught and the thread ends.
ThreadReadPlayer ==
    /\ ai_thread # None /\ pc = "start"
    /\ t_player' = difficulty
    /\ pc' = IF difficulty = None THEN "done" ELSE "player"
    /\ alive' = IF difficulty = None THEN alive - 1 ELSE alive
    /\ UNCHANGED <<tutorial_vars, clone_vars>>
    /\ UNCHANGED <<game_vars, ret, last_move, plan, k, dev, ai_vars, main_vars,
                   t_game, t_frozen, t_valid_moves, moved, stack, searches>>

\* ai_task reads the name game.
ThreadReadGame ==
    /\ ai_thread # None /\ pc = "player"
    /\ t_game' = game_id
    /\ pc' = "game"
    /\ UNCHANGED <<tutorial_vars, clone_vars>>
    /\ UNCHANGED <<game_vars, ret, last_move, plan, k, dev, ai_vars, main_vars,
                   t_player, t_frozen, t_valid_moves, moved, stack, alive,
                   searches>>

\* get_move reads game.game_over.
ThreadReadGameOver ==
    /\ ai_thread # None /\ pc = "game"
    /\ IF ThreadGame.game_over
       THEN Return(NoMove)
       ELSE pc' = "game_over" /\ UNCHANGED <<ai_result_container, alive>>
    /\ UNCHANGED <<tutorial_vars, clone_vars>>
    /\ UNCHANGED <<game_vars, ret, last_move, plan, k, dev, ai_vars, game_id, effects,
                   main_pc, ai_waiting, ai_thread, t_player, t_game, t_frozen,
                   t_valid_moves, moved, stack, searches>>

\* get_move reads game.current_player.
ThreadReadCurrentPlayer ==
    /\ ai_thread # None /\ pc = "game_over"
    /\ IF ThreadGame.current_player # player_symbol
       THEN Return(NoMove)
       ELSE pc' = "current_player" /\ UNCHANGED <<ai_result_container, alive>>
    /\ UNCHANGED <<tutorial_vars, clone_vars>>
    /\ UNCHANGED <<game_vars, ret, last_move, plan, k, dev, ai_vars, game_id, effects,
                   main_pc, ai_waiting, ai_thread, t_player, t_game, t_frozen,
                   t_valid_moves, moved, stack, searches>>

\* valid_moves = game.get_valid_moves()
ThreadValidMoves ==
    /\ ai_thread # None /\ pc = "current_player"
    /\ t_valid_moves' = get_valid_moves(ThreadGame)
    /\ IF get_valid_moves(ThreadGame) = <<>>
       THEN Return(NoMove)
       ELSE pc' = "valid_moves" /\ UNCHANGED <<ai_result_container, alive>>
    /\ UNCHANGED <<tutorial_vars, clone_vars>>
    /\ UNCHANGED <<game_vars, ret, last_move, plan, k, dev, ai_vars, game_id, effects,
                   main_pc, ai_waiting, ai_thread, t_player, t_game, t_frozen,
                   moved, stack, searches>>

\* The search of the difficulty on the object and its valid_moves, and the
\* return of its move.
ThreadSearch ==
    /\ ai_thread # None /\ pc = "valid_moves"
    /\ \E m \in (IF t_player = "EASY" THEN easy_move(t_valid_moves)
                 ELSE IF t_player = "MEDIUM"
                 THEN medium_move(ThreadGame, t_valid_moves)
                 ELSE bigbrain_move(ThreadGame, t_valid_moves)) :
          Return(m)
    /\ UNCHANGED <<tutorial_vars, clone_vars>>
    /\ UNCHANGED <<game_vars, ret, last_move, plan, k, dev, ai_vars, game_id, effects,
                   main_pc, ai_waiting, ai_thread, t_player, t_game, t_frozen,
                   t_valid_moves, moved, stack, searches>>

MainNext ==
    \/ \E a \in Clicks : ClickBoard(a)
    \/ RestartKey
    \/ ReturnToHome
    \/ ResetPlayer
    \/ SelectDifficulty
    \/ NewGame
    \/ AIStart
    \/ AIFinish
    \/ MainClearJustEnded
    \/ ThreadReadPlayer
    \/ ThreadReadGame
    \/ ThreadReadGameOver
    \/ ThreadReadCurrentPlayer
    \/ ThreadValidMoves
    \/ ThreadSearch

MainSpec == MainInit /\ [][MainNext]_vars

\* The game loop runs frame after frame (clock.tick), so a frame that has
\* handled its events reaches its end-of-game trigger.
MainFairSpec == MainSpec /\ WF_vars(MainClearJustEnded)

\* ------------------------------------------------------------------------
\* The tutorial: TutorialScreen and its demo game
\* ------------------------------------------------------------------------

\* TutorialStep.
WELCOME == 0
BOARD_STRUCTURE == 1
WIN_CONDITION == 2
FIRST_MOVE == 3
OPPONENT_RESPONSE == 4
OPPONENT_MOVED == 5
CONSTRAINT_RESULT == 6
CONSTRAINT_PRACTICE == 7
SEE_CONSTRAINT == 8
WIN_MINI_BOARD == 9
FREE_MOVE_SETUP == 10
FREE_MOVE_RULE == 11
PRACTICE_MODE == 12
COMPLETE == 13

\* The accepted clicks on the demo board that are followed in the steps
\* that accept any legal move, FREE_MOVE_RULE and PRACTICE_MODE.
MaxPractice == 1

\* The clicks on Back that are followed, other than the one that leaves the
\* tutorial from its first step.
MaxBack == 2

\* The steps in which only the highlighted cell is accepted.
Guided(step) == step \in {FIRST_MOVE, CONSTRAINT_PRACTICE, WIN_MINI_BOARD}

\* The cells of the demo board that are clicked: the top rows of the first
\* two sub-boards, the highlighted cells among them.
DemoClicks ==
    {a \in Args : a[1] = 0 /\ a[2] \in {0, 1} /\ a[3] = 0}

\* The TutorialScreen object as one record, with the demo game it holds.
Tutorial ==
    [current_step          |-> current_step,
     step_substep          |-> step_substep,
     demo_game             |-> Game,
     board_history         |-> board_history,
     last_move_cell        |-> last_move_cell,
     show_constraint_arrow |-> show_constraint_arrow]

\* _needs_fresh_board(step)
needs_fresh_board(step) ==
    step \in {WELCOME, BOARD_STRUCTURE, WIN_CONDITION, FIRST_MOVE,
              PRACTICE_MODE}

\* demo_game.sub_boards[br][bc].cells[cr][cc] = v, written directly.
SetCell(g, br, bc, cr, cc, v) ==
    [g EXCEPT !.sub_boards[<<br, bc>>].cells[<<cr, cc>>] = v]

\* demo_game.sub_boards[br][bc].winner = v, written directly.
SetWinner(g, br, bc, v) ==
    [g EXCEPT !.sub_boards[<<br, bc>>].winner = v]

\* The cells of the demo game that hold an X.
XCells(g) ==
    {a \in Args : g.sub_boards[<<a[1], a[2]>>].cells[<<a[3], a[4]>>] = "X"}

\* The place of a row of cells in the loops over br, bc and cr.
RowIndex(a) == 9 * a[1] + 3 * a[2] + a[3]

\* The X the four loops of OPPONENT_RESPONSE see last: break leaves the
\* loop over cc only, so it is the first X of the last row that has one.
LastXCell(g) ==
    CHOOSE a \in XCells(g) :
        \A b \in XCells(g) :
            /\ RowIndex(b) <= RowIndex(a)
            /\ RowIndex(b) = RowIndex(a) => a[4] <= b[4]

\* _setup_demo_board(force_reset) for the step T.current_step.
setup_demo_board(T, force_reset) ==
    LET step == T.current_step
        T0 == IF force_reset \/ needs_fresh_board(step)
              THEN [T EXCEPT !.demo_game = Game_init,
                             !.last_move_cell = NoMove,
                             !.show_constraint_arrow = FALSE]
              ELSE T
        g == T0.demo_game
    IN  CASE step = WIN_CONDITION ->
               [T0 EXCEPT !.demo_game =
                   [SetWinner(SetWinner(SetWinner(g, 0, 0, "X"), 0, 1, "X"),
                              0, 2, "X") EXCEPT !.game_over = TRUE]]
          [] step = OPPONENT_RESPONSE ->
               IF XCells(g) = {}
               THEN [T0 EXCEPT !.demo_game.current_player = "O"]
               ELSE [T0 EXCEPT !.demo_game.current_player = "O",
                               !.demo_game.active_board =
                                   <<LastXCell(g)[3], LastXCell(g)[4]>>,
                               !.last_move_cell = LastXCell(g),
                               !.show_constraint_arrow = TRUE]
          [] step = OPPONENT_MOVED ->
               IF g.active_board = NoBoard
               THEN T0
               ELSE [T0 EXCEPT !.demo_game =
                        [SetCell(g, g.active_board[1], g.active_board[2],
                                 0, 0, "O")
                            EXCEPT !.current_player = "X",
                                   !.active_board = <<0, 0>>],
                               !.last_move_cell = NoMove,
                               !.show_constraint_arrow = FALSE]
          [] step = CONSTRAINT_RESULT ->
               [T0 EXCEPT !.last_move_cell = <<0, 2, 0, 0>>,
                          !.show_constraint_arrow = TRUE,
                          !.demo_game.active_board = <<0, 0>>]
          [] step = CONSTRAINT_PRACTICE ->
               [T0 EXCEPT !.demo_game.current_player = "X",
                          !.demo_game.active_board = <<0, 0>>,
                          !.last_move_cell = NoMove,
                          !.show_constraint_arrow = FALSE]
          [] step = SEE_CONSTRAINT ->
               [T0 EXCEPT !.last_move_cell = <<0, 0, 0, 1>>,
                          !.show_constraint_arrow = TRUE,
                          !.demo_game.current_player = "O",
                          !.demo_game.active_board = <<0, 1>>]
          [] step = WIN_MINI_BOARD ->
               [T0 EXCEPT !.demo_game =
                       [SetCell(g, 0, 1, 0, 0, "O")
                           EXCEPT !.current_player = "X",
                                  !.active_board = <<0, 0>>],
                          !.last_move_cell = NoMove,
                          !.show_constraint_arrow = FALSE]
          [] step = FREE_MOVE_SETUP ->
               [T0 EXCEPT !.demo_game =
                       [SetCell(SetWinner(g, 0, 0, "X"), 1, 0, 0, 0, "O")
                           EXCEPT !.current_player = "X",
                                  !.active_board = NoBoard],
                          !.last_move_cell = <<1, 0, 0, 0>>,
                          !.show_constraint_arrow = TRUE]
          [] step = FREE_MOVE_RULE ->
               [T0 EXCEPT !.last_move_cell = NoMove,
                          !.show_constraint_arrow = FALSE]
          [] step = PRACTICE_MODE ->
               [T0 EXCEPT !.demo_game = Game_init]
          [] OTHER -> T0

\* highlight_cells as _update_highlights leaves it.
highlight_cells(step, substep) ==
    IF substep # 0 THEN {}
    ELSE CASE step = FIRST_MOVE -> {<<0, 0, 0, 2>>}
           [] step = CONSTRAINT_PRACTICE -> {<<0, 0, 0, 1>>}
           [] step = WIN_MINI_BOARD -> {<<0, 0, 0, 0>>}
           [] OTHER -> {}

\* _is_interactive_step()
is_interactive_step(step) ==
    step \in {FIRST_MOVE, CONSTRAINT_PRACTICE, WIN_MINI_BOARD, FREE_MOVE_RULE,
              PRACTICE_MODE}

\* _step_requires_action()
step_requires_action(step) ==
    step \in {FIRST_MOVE, CONSTRAINT_PRACTICE, WIN_MINI_BOARD, FREE_MOVE_RULE}

\* The sub-board that the loops over br and bc reach as their idx-th, idx
\* counted from 1.
BoardAt(idx) == <<(idx - 1) \div 3, (idx - 1) % 3>>

\* The state that _save_board_state copies out of the tutorial.
SavedState(T) ==
    [cells   |-> [idx \in 1..9 |-> T.demo_game.sub_boards[BoardAt(idx)].cells],
     winners |-> [idx \in 1..9 |-> T.demo_game.sub_boards[BoardAt(idx)].winner],
     current_player        |-> T.demo_game.current_player,
     active_board          |-> T.demo_game.active_board,
     game_over             |-> T.demo_game.game_over,
     winner                |-> T.demo_game.winner,
     last_move_cell        |-> T.last_move_cell,
     show_constraint_arrow |-> T.show_constraint_arrow,
     step_substep          |-> T.step_substep]

\* _save_board_state(): board_history[current_step] = state.
save_board_state(T) ==
    [T EXCEPT !.board_history =
        [s \in DOMAIN T.board_history \cup {T.current_step} |->
            IF s = T.current_step THEN SavedState(T) ELSE T.board_history[s]]]

\* _restore_board_state(step) that leaves current_player as it is.
restore_board_state_keeps_player(T, step) ==
    IF step \notin DOMAIN T.board_history
    THEN [ret |-> FALSE, tutorial |-> T]
    ELSE LET state == T.board_history[step]
         IN  [ret |-> TRUE,
              tutorial |->
                [T EXCEPT !.demo_game =
                       [sub_boards |->
                            [p \in Pos |->
                                [cells  |-> state.cells[3 * p[1] + p[2] + 1],
                                 winner |-> state.winners[3 * p[1] + p[2] + 1]]],
                        current_player |-> T.demo_game.current_player,
                        active_board   |-> state.active_board,
                        winner         |-> state.winner,
                        game_over      |-> state.game_over,
                        just_ended     |-> T.demo_game.just_ended],
                          !.last_move_cell = state.last_move_cell,
                          !.show_constraint_arrow = state.show_constraint_arrow,
                          !.step_substep = state.step_substep]]

\* _restore_board_state(step): the saved fields are written back into the
\* demo game; just_ended is not among them.
restore_board_state(T, step) ==
    IF step \notin DOMAIN T.board_history
    THEN [ret |-> FALSE, tutorial |-> T]
    ELSE LET state == T.board_history[step]
         IN  [ret |-> TRUE,
              tutorial |->
                [T EXCEPT !.demo_game =
                       [sub_boards |->
                            [p \in Pos |->
                                [cells  |-> state.cells[3 * p[1] + p[2] + 1],
                                 winner |-> state.winners[3 * p[1] + p[2] + 1]]],
                        current_player |-> state.current_player,
                        active_board   |-> state.active_board,
                        winner         |-> state.winner,
                        game_over      |-> state.game_over,
                        just_ended     |-> T.demo_game.just_ended],
                          !.last_move_cell = state.last_move_cell,
                          !.show_constraint_arrow = state.show_constraint_arrow,
                          !.step_substep = state.step_substep]]

\* _next_step()
next_step(T) ==
    LET S == save_board_state(T)
    IN  IF S.current_step < COMPLETE
        THEN setup_demo_board([S EXCEPT !.current_step = @ + 1,
                                        !.step_substep = 0], FALSE)
        ELSE S

\* _previous_step()
previous_step(T) ==
    IF T.current_step > WELCOME
    THEN LET prev_step == T.current_step - 1
             r == restore_board_state(T, prev_step)
         IN  IF r.ret
             THEN [r.tutorial EXCEPT !.current_step = prev_step]
             ELSE setup_demo_board([T EXCEPT !.current_step = prev_step,
                                             !.step_substep = 0], TRUE)
    ELSE T

\* _handle_demo_click(pos) for a position over the cell a of the demo board.
handle_demo_click(T, a) ==
    LET g == T.demo_game
    IN  IF ~is_interactive_step(T.current_step) THEN T
        ELSE IF step_requires_action(T.current_step) /\ T.step_substep > 0
        THEN T
        ELSE IF ~is_valid_board(g, a[1], a[2]) THEN T
        ELSE IF g.sub_boards[<<a[1], a[2]>>].cells[<<a[3], a[4]>>] # None
        THEN T
        ELSE IF /\ Guided(T.current_step)
                /\ a \notin highlight_cells(T.current_step, T.step_substep)
                /\ highlight_cells(T.current_step, T.step_substep) # {}
        THEN T
        ELSE [T EXCEPT !.demo_game = make_move(g, a[1], a[2], a[3], a[4]).game,
                       !.step_substep = @ + 1]

\* The tutorial and its demo game become T2.
TutorialBecomes(T2) ==
    /\ current_step' = T2.current_step
    /\ step_substep' = T2.step_substep
    /\ board_history' = T2.board_history
    /\ last_move_cell' = T2.last_move_cell
    /\ show_constraint_arrow' = T2.show_constraint_arrow
    /\ sub_boards' = T2.demo_game.sub_boards
    /\ current_player' = T2.demo_game.current_player
    /\ active_board' = T2.demo_game.active_board
    /\ winner' = T2.demo_game.winner
    /\ game_over' = T2.demo_game.game_over
    /\ just_ended' = T2.demo_game.just_ended

\* The mode selection loop of main: no TutorialScreen and no game object.
TutorialInit ==
    /\ sub_boards = Game_init.sub_boards
    /\ current_player = Game_init.current_player
    /\ active_board = Game_init.active_board
    /\ winner = Game_init.winner
    /\ game_over = Game_init.game_over
    /\ just_ended = Game_init.just_ended
    /\ ret = FALSE
    /\ last_move = NoMove
    /\ plan = {}
    /\ k = 0
    /\ dev = 0
    /\ difficulty = None
    /\ move = NoMove
    /\ called = FALSE
    /\ game_id = 1
    /\ main_pc = "mode_select"
    /\ ai_waiting = FALSE
    /\ ai_thread = None
    /\ ai_result_container = <<NoMove>>
    /\ pc = "idle"
    /\ t_player = None
    /\ t_game = 0
    /\ t_frozen = None
    /\ t_valid_moves = <<>>
    /\ moved = {}
    /\ stack = <<>>
    /\ alive = 0
    /\ searches = 0
    /\ effects = <<<<>>>>
    /\ NoTutorial
    /\ NoClone

\* tutorial = TutorialScreen(screen, sound_manager): the first step, an empty
\* history, the demo board set up, the buttons created enabled.
OpenTutorial ==
    /\ main_pc = "mode_select"
    /\ main_pc' = "tutorial"
    /\ TutorialBecomes(
           setup_demo_board([current_step          |-> WELCOME,
                             step_substep          |-> 0,
                             demo_game             |-> Game,
                             board_history         |-> <<>>,
                             last_move_cell        |-> NoMove,
                             show_constraint_arrow |-> FALSE], FALSE))
    /\ next_enabled' = TRUE
    /\ practice' = 0
    /\ backs' = 0
    /\ UNCHANGED <<ret, last_move, plan, k, dev, ai_vars, game_id,
                   ai_waiting, ai_thread, ai_result_container, effects,
                   thread_vars, clone_vars>>

\* run() returns 'MENU': the TutorialScreen and its demo game are dropped.
ReturnMenu ==
    /\ main_pc' = "mode_select"
    /\ current_step' = None
    /\ step_substep' = 0
    /\ board_history' = <<>>
    /\ last_move_cell' = NoMove
    /\ show_constraint_arrow' = FALSE
    /\ next_enabled' = FALSE
    /\ practice' = 0
    /\ backs' = 0
    /\ sub_boards' = Game_init.sub_boards
    /\ current_player' = Game_init.current_player
    /\ active_board' = Game_init.active_board
    /\ winner' = Game_init.winner
    /\ game_over' = Game_init.game_over
    /\ just_ended' = Game_init.just_ended
    /\ UNCHANGED <<ret, last_move, plan, k, dev, ai_vars, game_id,
                   ai_waiting, ai_thread, ai_result_container, effects,
                   thread_vars, clone_vars>>

\* A left click on Skip, or the Escape key.
Skip ==
    /\ main_pc = "tutorial"
    /\ ReturnMenu

\* A left click on Back: to the menu from the first step, otherwise
\* _previous_step().
ClickBack ==
    /\ main_pc = "tutorial"
    /\ IF current_step = WELCOME
       THEN ReturnMenu
       ELSE /\ backs < MaxBack
            /\ backs' = backs + 1
            /\ TutorialBecomes(previous_step(Tutorial))
            /\ UNCHANGED <<ret, last_move, plan, k, dev, ai_vars, main_vars,
                           thread_vars, clone_vars, next_enabled, practice>>

\* A left click on Next while the button is enabled: to the menu from the
\* last step, otherwise _next_step().
ClickNext ==
    /\ main_pc = "tutorial"
    /\ next_enabled
    /\ IF current_step = COMPLETE
       THEN ReturnMenu
       ELSE /\ TutorialBecomes(next_step(Tutorial))
            /\ UNCHANGED <<ret, last_move, plan, k, dev, ai_vars, main_vars,
                           thread_vars, clone_vars, next_enabled, practice,
                           backs>>

\* A left click on the cell a of the demo board.
DemoClick(a) ==
    /\ main_pc = "tutorial"
    /\ \E T2 \in {handle_demo_click(Tutorial, a)} :
          \E counted \in {T2.step_substep # step_substep
                           /\ ~Guided(current_step)} :
              /\ counted => practice < MaxPractice
              /\ TutorialBecomes(T2)
              /\ practice' = IF counted THEN practice + 1 ELSE practice
    /\ UNCHANGED <<ret, last_move, plan, k, dev, ai_vars, main_vars,
                   thread_vars, clone_vars, next_enabled, backs>>

\* _draw() at the end of a frame: _update_button_states().
Draw ==
    /\ main_pc = "tutorial"
    /\ next_enabled' = (~step_requires_action(current_step) \/ step_substep > 0)
    /\ UNCHANGED <<game_vars, ret, last_move, plan, k, dev, ai_vars,
                   main_vars, thread_vars, clone_vars, current_step,
                   step_substep, board_history, last_move_cell,
                   show_constraint_arrow, practice, backs>>

TutorialNext ==
    \/ OpenTutorial
    \/ Skip
    \/ ClickBack
    \/ ClickNext
    \/ \E a \in DemoClicks : DemoClick(a)
    \/ Draw

TutorialSpec == TutorialInit /\ [][TutorialNext]_vars

\* ------------------------------------------------------------------------
\* clone(): a second game object next to the original
\* ------------------------------------------------------------------------

\* The accepted make_move calls on the clone that are followed.
MaxCloneMoves == 1

\* clone() is called in the positions that have at most this many moves of
\* a script ahead of them.
CloneBack == 2

\* A copy that takes over the SubBoard objects of the original instead of
\* filling its own.
clone_shares_sub_boards(g) ==
    [sub_boards     |-> [p \in Pos |->
                            [shared |-> TRUE,
                             cells  |-> g.sub_boards[p].cells,
                             winner |-> g.sub_boards[p].winner]],
     current_player |-> g.current_player,
     active_board   |-> g.active_board,
     winner         |-> g.winner,
     game_over      |-> g.game_over,
     just_ended     |-> g.just_ended]

\* clone(): a new UltimateTicTacToe with its own nine SubBoard objects; the
\* five fields of the game, every cell and every sub-board winner are
\* assigned from the original. Each sub-board of the new object says whether
\* it is an object of the original (shared) or one of its own.
clone(g) ==
    [sub_boards     |-> [p \in Pos |->
                            [shared |-> FALSE,
                             cells  |-> [q \in Pos |-> g.sub_boards[p].cells[q]],
                             winner |-> g.sub_boards[p].winner]],
     current_player |-> g.current_player,
     active_board   |-> g.active_board,
     winner         |-> g.winner,
     game_over      |-> g.game_over,
     just_ended     |-> g.just_ended]

\* The game that the object n is: a shared sub-board is read in the
\* original.
Deref(n) ==
    [sub_boards     |-> [p \in Pos |->
                            IF n.sub_boards[p].shared
                            THEN sub_boards[p]
                            ELSE [cells  |-> n.sub_boards[p].cells,
                                  winner |-> n.sub_boards[p].winner]],
     current_player |-> n.current_player,
     active_board   |-> n.active_board,
     winner         |-> n.winner,
     game_over      |-> n.game_over,
     just_ended     |-> n.just_ended]

\* The object n after its game has become g.
Written(n, g) ==
    [sub_boards     |-> [p \in Pos |->
                            [shared |-> n.sub_boards[p].shared,
                             cells  |-> g.sub_boards[p].cells,
                             winner |-> g.sub_boards[p].winner]],
     current_player |-> g.current_player,
     active_board   |-> g.active_board,
     winner         |-> g.winner,
     game_over      |-> g.game_over,
     just_ended     |-> g.just_ended]

\* game = UltimateTicTacToe(), and no clone.
CloneInit == Init

\* new_game = game.clone(), in a position near the end of a script.
Clone ==
    /\ new_game = <<>>
    /\ dev = 0
    /\ \E p \in plan : k + CloneBack >= Len(Scripts[p])
    /\ new_game' = <<clone(Game)>>
    /\ UNCHANGED <<game_vars, ret, last_move, plan, k, dev, ai_vars,
                   main_vars, thread_vars, tutorial_vars, clone_moves>>

\* An accepted call new_game.make_move(a[1], a[2], a[3], a[4]): the writes
\* to a shared sub-board land in the original.
MoveOnClone(a) ==
    /\ new_game # <<>>
    /\ clone_moves < MaxCloneMoves
    /\ \E r \in {make_move(Deref(new_game[1]), a[1], a[2], a[3], a[4])} :
          /\ r.ret
          /\ new_game' = <<Written(new_game[1], r.game)>>
          /\ sub_boards' = [p \in Pos |->
                               IF new_game[1].sub_boards[p].shared
                               THEN r.game.sub_boards[p]
                               ELSE sub_boards[p]]
    /\ clone_moves' = clone_moves + 1
    /\ UNCHANGED <<current_player, active_board, winner, game_over,
                   just_ended, ret, last_move, plan, k, dev, ai_vars,
                   main_vars, thread_vars, tutorial_vars>>

CloneNext ==
    \/ \E a \in Args : MakeMove(a)
    \/ Clone
    \/ \E a \in Args : MoveOnClone(a)

CloneSpec == CloneInit /\ [][CloneNext]_vars

\* ------------------------------------------------------------------------
\* Vocabulary of the properties
\* ------------------------------------------------------------------------

\* The eight lines of a 3x3 grid.
Lines ==
    {{<<r, 0>>, <<r, 1>>, <<r, 2>>} : r \in Idx}
        \cup {{<<0, c>>, <<1, c>>, <<2, c>>} : c \in Idx}
        \cup {{<<0, 0>>, <<1, 1>>, <<2, 2>>}, {<<0, 2>>, <<1, 1>>, <<2, 0>>}}

\* The grid holds a complete line of p.
HasLine(grid, p) == \E L \in Lines : \A q \in L : grid[q] = p

\* The grid of sub-board winners.
Winners == [b \in Pos |-> sub_boards[b].winner]

\* Sub-board b has no winner and an empty cell.
Playable(b) ==
    /\ sub_boards[b].winner = None
    /\ \E q \in Pos : sub_boards[b].cells[q] = None

\* The step is a make_move call that returned True; its arguments are
\* last_move'.
Accepted == ret' /\ last_move' # NoMove /\ MakeMove(last_move')

\* The step is a make_move call that returned False.
Rejected == ~ret' /\ \E a \in Args : MakeMove(a)

\* ------------------------------------------------------------------------
\* C1 - move legality
\* ------------------------------------------------------------------------

\* The condition under which a move is legal, as the rules state it.
LegalMove(a) ==
    /\ ~game_over
    /\ active_board = NoBoard \/ active_board = <<a[1], a[2]>>
    /\ Playable(<<a[1], a[2]>>)
    /\ sub_boards[<<a[1], a[2]>>].cells[<<a[3], a[4]>>] = None

\* C1: in every reachable state and for every (br,bc,cr,cc), make_move
\* returns True iff the game is not over, the active board is None or
\* (br,bc), sub-board (br,bc) is playable and its cell (cr,cc) is empty.
C1_MoveLegality ==
    \A a \in Args : make_move(Game, a[1], a[2], a[3], a[4]).ret <=> LegalMove(a)

\* A running game with an active board after an accepted call: some calls
\* are legal, one into another sub-board is not, and one into an occupied
\* cell of the active board is not.
C1_Witness ==
    /\ ret /\ ~game_over /\ active_board # NoBoard
    /\ \E a \in Args : LegalMove(a)
    /\ \E a \in Args : /\ <<a[1], a[2]>> # active_board
                       /\ Playable(<<a[1], a[2]>>)
                       /\ sub_boards[<<a[1], a[2]>>].cells[<<a[3], a[4]>>] = None
    /\ \E a \in Args : /\ <<a[1], a[2]>> = active_board
                       /\ sub_boards[<<a[1], a[2]>>].cells[<<a[3], a[4]>>] # None

\* ------------------------------------------------------------------------
\* C2 - a rejected move changes nothing
\* ------------------------------------------------------------------------

\* C2: whenever make_move returns False, every field of the game (cells,
\* sub-board winners, current_player, active_board, winner, game_over,
\* just_ended) is as it was before the call.
C2_RejectedMoveChangesNothing == [][UNCHANGED game_vars \/ ~Rejected]_vars

\* A call was rejected in a running game that has marks on the board.
C2_Witness == ~ret /\ ~game_over /\ last_move # NoMove

\* ------------------------------------------------------------------------
\* C3 - the finished game is frozen
\* ------------------------------------------------------------------------

\* C3: once game_over is true it stays true, every later make_move call
\* returns False, and cells, sub-board winners, winner, current_player and
\* active_board stay as they were when the game ended.
C3_FinishedGameIsFrozen ==
    [][game_over =>
          /\ game_over'
          /\ UNCHANGED <<sub_boards, winner, current_player, active_board>>
          /\ \A a \in Args : MakeMove(a) => ~ret']_vars

\* A call was made, and rejected, after the end of a game in which moves
\* into empty cells of playable sub-boards were still there to try.
C3_Witness ==
    /\ game_over /\ ~ret
    /\ \E b \in Pos : Playable(b)

\* ------------------------------------------------------------------------
\* C4 - turn alternation
\* ------------------------------------------------------------------------

\* C4: an accepted move that does not end the game hands the turn to the
\* other player; an accepted move that ends the game leaves current_player
\* alone, so that it names the player whose mark ended the game.
C4_TurnAlternation ==
    [][Accepted =>
          IF game_over'
          THEN /\ current_player' = current_player
               /\ sub_boards'[<<last_move'[1], last_move'[2]>>]
                      .cells[<<last_move'[3], last_move'[4]>>] = current_player'
          ELSE current_player' = Other(current_player)]_vars

\* O has just made the move that ended the game; the turn is still O's.
C4_Witness == ret /\ game_over /\ current_player = "O" /\ just_ended

\* ------------------------------------------------------------------------
\* C5 - the next active board
\* ------------------------------------------------------------------------

\* The sub-board an accepted move sends the opponent to: the one indexed by
\* the cell just played when it is playable after the move, else none.
NextTarget ==
    LET c == <<last_move'[3], last_move'[4]>>
    IN  IF is_playable(sub_boards'[c]) THEN c ELSE NoBoard

\* C5 as stated: after any accepted make_move(br,bc,cr,cc), active_board is
\* (cr,cc) if that sub-board is playable in the resulting state, else None.
C5_AsStated == [][Accepted => active_board' = NextTarget]_vars

\* C5: after an accepted make_move(br,bc,cr,cc) that does not end the game,
\* active_board is (cr,cc) if that sub-board is playable in the resulting
\* state and None otherwise; an accepted move that ends the game leaves
\* active_board as it was before the call.
C5_ActiveBoardTransition ==
    [][Accepted =>
          IF game_over'
          THEN active_board' = active_board
          ELSE active_board' = NextTarget]_vars

\* A running game in which the move just accepted pointed at a sub-board
\* that is won or full: the next move is free.
C5_Witness ==
    /\ ret /\ ~game_over /\ last_move # NoMove
    /\ active_board = NoBoard
    /\ ~Playable(<<last_move[3], last_move[4]>>)

\* ------------------------------------------------------------------------
\* C6 - one line owner per sub-board
\* ------------------------------------------------------------------------

\* C6: no sub-board ever holds a complete line of X and a complete line of O.
C6_OneLineOwner ==
    \A b \in Pos :
        ~(HasLine(sub_boards[b].cells, "X") /\ HasLine(sub_boards[b].cells, "O"))

\* A sub-board holds a complete line of one player while the other player
\* has two marks on a line whose third cell is empty and is free to move
\* anywhere: one more mark there would give that sub-board a second owner.
C6_Witness ==
    /\ ~game_over /\ active_board = NoBoard
    /\ \E b \in Pos, p \in Players, L \in Lines :
          /\ HasLine(sub_boards[b].cells, p)
          /\ current_player = Other(p)
          /\ \E q \in L : /\ sub_boards[b].cells[q] = None
                          /\ \A o \in L \ {q} : sub_boards[b].cells[o] = Other(p)

\* ------------------------------------------------------------------------
\* C7 - game_over and winner against the grid of sub-board winners
\* ------------------------------------------------------------------------

\* C7: game_over holds iff the grid of sub-board winners has a complete line
\* of X or of O, or no sub-board is playable; winner is P iff that grid has
\* a complete line of P, and is None otherwise.
C7_GameOverAndWinner ==
    /\ game_over <=> \/ \E p \in Players : HasLine(Winners, p)
                     \/ \A b \in Pos : ~Playable(b)
    /\ \A p \in Players : winner = p <=> HasLine(Winners, p)
    /\ winner \in Players \cup {None}

\* A draw: the game is over, no sub-board is playable and nobody has a line.
C7_Witness ==
    /\ game_over /\ winner = None
    /\ \A b \in Pos : ~Playable(b)
    /\ \A p \in Players : ~HasLine(Winners, p)

\* ------------------------------------------------------------------------
\* C8 - a win takes precedence over a draw
\* ------------------------------------------------------------------------

\* C8: when an accepted move leaves a line of sub-boards won by the mover
\* and no playable sub-board, the game is over with the mover as winner and
\* is_draw() is false.
C8_WinBeforeDraw ==
    [][(/\ Accepted
        /\ HasLine([b \in Pos |-> sub_boards'[b].winner], current_player)
        /\ \A b \in Pos : ~is_playable(sub_boards'[b]))
          => /\ game_over'
             /\ winner' = current_player
             /\ ~(game_over' /\ winner' = None)]_vars

\* The move just accepted ended the game with a line of sub-boards for X
\* and with the last playable sub-board closed.
C8_Witness ==
    /\ ret /\ just_ended /\ game_over
    /\ HasLine(Winners, "X")
    /\ \A b \in Pos : ~Playable(b)

\* ------------------------------------------------------------------------
\* C9 - just_ended is raised once
\* ------------------------------------------------------------------------

\* C9: a make_move call sets just_ended exactly when it takes game_over from
\* false to true, and leaves just_ended alone otherwise; once the flag has
\* been cleared in a finished game nothing raises it again.
C9_JustEndedOnce ==
    [][/\ \/ just_ended' = (just_ended \/ (~game_over /\ game_over'))
          \/ ~(Accepted \/ Rejected)
       /\ (game_over /\ ~just_ended) => ~just_ended']_vars

\* The game is over, the flag has been cleared, and a call has been made
\* (and rejected) in the finished game.
C9_Witness == game_over /\ ~just_ended /\ ~ret

\* ------------------------------------------------------------------------
\* C10 - sub-board state is write-once
\* ------------------------------------------------------------------------

\* C10: along every step a cell that holds X or O keeps its symbol, a
\* sub-board winner that is set keeps its value, and no cell of a sub-board
\* that has a winner changes: a sub-board that changes had no winner, and
\* its marked cells are as before.
C10_WriteOnce ==
    [][\A b \in Pos :
          \/ sub_boards'[b] = sub_boards[b]
          \/ /\ sub_boards[b].winner = None
             /\ \A q \in Pos : sub_boards[b].cells[q] # None
                    => sub_boards'[b].cells[q] = sub_boards[b].cells[q]]_vars

\* On a free turn of a running game, with a won sub-board that still has
\* empty cells, a call has been made and rejected.
C10_Witness ==
    /\ ~ret /\ ~game_over /\ active_board = NoBoard
    /\ \E b \in Pos : sub_boards[b].winner # None /\ ~is_full(sub_boards[b])

\* ------------------------------------------------------------------------
\* C11 - the winner of a sub-board is the owner of its line
\* ------------------------------------------------------------------------

\* C11: in every reachable state and for every sub-board, winner is P
\* exactly when the cells hold a complete row, column or diagonal of P (so
\* the move that completes the line is the one that sets winner), and a
\* full sub-board without any line has winner None, is_full true and
\* is_playable false.
C11_SubBoardWinnerIffLine ==
    \A b \in Pos :
        /\ \A P \in Players :
               sub_boards[b].winner = P <=> HasLine(sub_boards[b].cells, P)
        /\ (/\ \A q \in Pos : sub_boards[b].cells[q] # None
            /\ \A P \in Players : ~HasLine(sub_boards[b].cells, P))
              => /\ sub_boards[b].winner = None
                 /\ is_full(sub_boards[b])
                 /\ ~is_playable(sub_boards[b])

\* The accepted move has just completed a line in its sub-board, which now
\* has a winner, while another sub-board is full without any line.
C11_Witness ==
    /\ ret /\ last_move # NoMove
    /\ sub_boards[<<last_move[1], last_move[2]>>].winner = Other(current_player)
    /\ \E L \in Lines :
          /\ <<last_move[3], last_move[4]>> \in L
          /\ \A q \in L : sub_boards[<<last_move[1], last_move[2]>>].cells[q]
                               = Other(current_player)
    /\ \E b \in Pos :
          /\ \A q \in Pos : sub_boards[b].cells[q] # None
          /\ \A P \in Players : ~HasLine(sub_boards[b].cells, P)

\* ------------------------------------------------------------------------
\* C12 - get_valid_moves lists the accepted moves
\* ------------------------------------------------------------------------

\* C12: in every reachable state the set of tuples that get_valid_moves()
\* returns is exactly the set of (br,bc,cr,cc) for which make_move would
\* return True, and the call leaves every field of the game as it was.
C12_ValidMovesAreAcceptedMoves ==
    \E c \in {get_valid_moves_call(Game)} :
        /\ {c.ret[i] : i \in DOMAIN c.ret}
             = {a \in Args : make_move(Game, a[1], a[2], a[3], a[4]).ret}
        /\ c.game = Game

\* On a free turn of a running game in which a sub-board has been won with
\* cells still empty and another is full: the list is not empty and leaves
\* out the empty cells of the won sub-board.
C12_Witness ==
    /\ ~game_over /\ active_board = NoBoard
    /\ get_valid_moves(Game) # <<>>
    /\ \E b \in Pos : sub_boards[b].winner # None /\ ~is_full(sub_boards[b])
    /\ \E b \in Pos : is_full(sub_boards[b])

\* ------------------------------------------------------------------------
\* C13 - no legal move exactly when the game is over
\* ------------------------------------------------------------------------

\* C13: in every reachable state get_valid_moves() returns the empty list
\* if and only if game_over is true.
C13_NoMovesIffGameOver == (get_valid_moves(Game) = <<>>) <=> game_over

\* A finished game in which a sub-board is still playable: the list is
\* empty because the game is over, not for want of an empty cell.
C13_Witness ==
    /\ game_over
    /\ \E b \in Pos : Playable(b)
    /\ get_valid_moves(Game) = <<>>

\* ------------------------------------------------------------------------
\* C14 - get_move returns None only when there is nothing to play
\* ------------------------------------------------------------------------

\* The game is running and it is the AI's turn.
AITurn == ~game_over /\ current_player = player_symbol

\* C14: for each of the three difficulties, get_move returns None only if
\* the game is over or it is not the AI's turn, and it returns a move tuple
\* whenever it is the AI's turn in a running game.
C14_NoneOnlyWhenNotToMove ==
    called => /\ move = NoMove => ~AITurn
              /\ AITurn => move \in Args

\* Big Brain has returned a move on its turn with several legal moves, in a
\* position outside the endgame.
C14_Witness ==
    /\ called /\ difficulty = "BIG_BRAIN" /\ AITurn /\ ~Endgame
    /\ move \in Args
    /\ Len(get_valid_moves(Game)) > 1

\* ------------------------------------------------------------------------
\* C15 - get_move leaves the game alone
\* ------------------------------------------------------------------------

\* C15: for every difficulty, a get_move call leaves every field of the
\* game that was passed to it unchanged.
C15_GetMoveLeavesGame ==
    [][(~called /\ called') => UNCHANGED game_vars]_vars

\* Medium has searched a position on its turn and returned a move; the AI's
\* symbol is not yet in the cell it chose.
C15_Witness ==
    /\ called /\ difficulty = "MEDIUM" /\ AITurn
    /\ move \in Args
    /\ sub_boards[<<move[1], move[2]>>].cells[<<move[3], move[4]>>] = None

\* ------------------------------------------------------------------------
\* C16
\* ------------------------------------------------------------------------

SetMax(S) == CHOOSE x \in S : \A y \in S : y <= x
SetMin(S) == CHOOSE x \in S : \A y \in S : x <= y

\* Minimax without pruning, with the leaf scores of _minimax_numpy: a line of
\* the macro board, the evaluator at depth 0, and 0 when there is no move.
RECURSIVE FullMinimax(_, _, _, _, _)
FullMinimax(board, macro_board, active_board_, depth, is_maximizing) ==
    IF AnyLine(macro_board, 3) THEN 1000 + depth
    ELSE IF AnyLine(macro_board, -3) THEN -1000 - depth
    ELSE IF depth <= 0 THEN evaluate_numpy(board, macro_board)
    ELSE LET moves == SearchMoves(board, macro_board, active_board_)
             child(m) ==
                 LET n == Simulate(board, macro_board, m,
                                   IF is_maximizing THEN 1 ELSE -1)
                 IN  FullMinimax(n.board, n.macro_board, n.active_board,
                                 depth - 1, ~is_maximizing)
         IN  IF moves = <<>> THEN 0
             ELSE IF is_maximizing
             THEN SetMax({child(moves[i]) : i \in DOMAIN moves})
             ELSE SetMin({child(moves[i]) : i \in DOMAIN moves})

\* The value of the root move m of game g under minimax without pruning to
\* max_depth plies.
RootValue(g, m, max_depth) ==
    LET t == to_numpy(g)
        n == Simulate(t.board, t.macro_board, m, 1)
    IN  FullMinimax(n.board, n.macro_board, n.active_board, max_depth - 1, FALSE)

\* The depth to which the search of a difficulty looks in game g.
SearchDepth(g, difficulty_) ==
    IF difficulty_ = "MEDIUM" THEN 2
    ELSE bigbrain_depth(Len(get_valid_moves(g)))

\* The positions in which the search is compared with minimax without
\* pruning: every position for Medium, the endgame for Big Brain.
Compared ==
    /\ called
    /\ move \in Args
    /\ \/ difficulty = "MEDIUM"
       \/ difficulty = "BIG_BRAIN" /\ Endgame

\* C16: the move that the alpha-beta search of Medium or Big Brain returns
\* has, under minimax without pruning to the same depth and with the same
\* leaf scores, the largest value of all legal root moves.
C16_AlphaBetaMoveHasMinimaxValue ==
    Compared =>
        \E d \in {SearchDepth(Game, difficulty)} :
            \E v \in {RootValue(Game, move, d)} :
                \A i \in DOMAIN get_valid_moves(Game) :
                    RootValue(Game, get_valid_moves(Game)[i], d) <= v

\* Big Brain has returned a move in an endgame position where the legal
\* moves differ in value and a move of smaller value comes first in the
\* order of the search.
C16_Witness ==
    /\ Compared
    /\ difficulty = "BIG_BRAIN"
    /\ \E d \in {SearchDepth(Game, difficulty)} :
          \E v \in {RootValue(Game, move, d)} :
              /\ RootValue(Game, SortedMoves(get_valid_moves(Game))[1], d) < v
              /\ \E i \in DOMAIN get_valid_moves(Game) :
                     RootValue(Game, get_valid_moves(Game)[i], d) < v

\* ------------------------------------------------------------------------
\* C17
\* ------------------------------------------------------------------------

\* best_move at the last line of _medium_move or _bigbrain_move in game g.
SearchBest(g, difficulty_) ==
    LET t == to_numpy(g)
        valid_moves_ == get_valid_moves(g)
    IN  IF difficulty_ = "MEDIUM"
        THEN RootSearch(t.board, t.macro_board, valid_moves_, 2)
        ELSE RootSearch(t.board, t.macro_board, SortedMoves(valid_moves_),
                        bigbrain_depth(Len(valid_moves_)))

\* get_move of Medium or Big Brain has been called with the AI to move.
Searched == called /\ difficulty \in {"MEDIUM", "BIG_BRAIN"} /\ AITurn

\* C17: for Medium and Big Brain every call of get_move on the same game
\* returns the same move, the one that the call before returned, and the
\* search ends with a best move, so random.choice is not reached.
C17_SearchIsDeterministic ==
    Searched =>
        /\ get_move(Game, difficulty) = {move}
        /\ SearchBest(Game, difficulty) = move
        /\ move # NoMove

\* Medium has returned a move in a position where several legal moves have
\* the largest minimax value, so that the value alone does not fix the move.
C17_Witness ==
    /\ Searched
    /\ difficulty = "MEDIUM"
    /\ move \in Args
    /\ \E i \in DOMAIN get_valid_moves(Game) :
          /\ get_valid_moves(Game)[i] # move
          /\ RootValue(Game, get_valid_moves(Game)[i], 2) = RootValue(Game, move, 2)

\* ------------------------------------------------------------------------
\* C19
\* ------------------------------------------------------------------------

\* C19: a move that get_move has returned, whatever the difficulty, is an
\* element of get_valid_moves() of the game it was called on, and make_move
\* of that move on the game returns True.
C19_ReturnedMoveIsValid ==
    (called /\ move # NoMove) =>
        /\ \E i \in DOMAIN get_valid_moves(Game) : get_valid_moves(Game)[i] = move
        /\ make_move(Game, move[1], move[2], move[3], move[4]).ret

\* Big Brain has returned a move on a turn bound to one sub-board while
\* another sub-board has empty cells too; the move is in the active board
\* and make_move accepts it.
C19_Witness ==
    /\ called
    /\ difficulty = "BIG_BRAIN"
    /\ move \in Args
    /\ active_board # NoBoard
    /\ <<move[1], move[2]>> = active_board
    /\ \E a \in OpenCells : a[1] # active_board
    /\ make_move(Game, move[1], move[2], move[3], move[4]).ret

\* ------------------------------------------------------------------------
\* C20
\* ------------------------------------------------------------------------

\* The move m, made now, wins the whole game for the AI.
WinsNow(m) ==
    \E r \in {make_move(Game, m[1], m[2], m[3], m[4])} :
        r.ret /\ r.game.game_over /\ r.game.winner = player_symbol

\* C20: when the AI is to move and some legal move wins the whole game at
\* once, the move that Medium or Big Brain returns wins the game at once.
\* The evaluator gives a position with two owned sub-boards and an open
\* line more than the 1000 + depth of a won game, so the search passes
\* over the winning move.
C20_TakesImmediateWin ==
    (Searched /\ \E i \in DOMAIN get_valid_moves(Game) :
                     WinsNow(get_valid_moves(Game)[i]))
        => WinsNow(move)

\* The same statement for Big Brain alone, which also passes over the win.
C20_BigBrainMissesWin ==
    ~ /\ Searched
      /\ difficulty = "BIG_BRAIN"
      /\ \E i \in DOMAIN get_valid_moves(Game) : WinsNow(get_valid_moves(Game)[i])
      /\ ~WinsNow(move)

\* ------------------------------------------------------------------------
\* C18
\* ------------------------------------------------------------------------

\* The thread has read the name game.
HasGame == ai_thread # None /\ t_game # 0

\* C18: from the start of the AI thread to its end no make_move is applied
\* to the game object that the thread's get_move reads. ai_task reads the
\* name game when it runs, not when the thread is created, so after an R
\* restart and a click the thread reads an object that a move was made on
\* since the thread started.
C18_NoMoveOnSearchedGame ==
    HasGame => \A x \in moved : x[1] # t_game

\* The same for the time in which get_move has the object in its hands: no
\* make_move is applied to it after the thread has read the name game.
C18_NoMoveWhileReading ==
    HasGame => \A x \in moved : x[1] = t_game => x[2] \in {"start", "player"}

\* ------------------------------------------------------------------------
\* C21
\* ------------------------------------------------------------------------

\* The remaining depths with which the searches call _minimax_numpy: from
\* max_depth - 1 of Big Brain's deepest search down to 0.
Depths == 0 .. (bigbrain_depth(0) - 1)

\* The value of _minimax_numpy with remaining depth d on the position that
\* the search reaches from the game by the move m of the player to move.
ValueAfter(m, d, is_maximizing) ==
    LET t == to_numpy(Game)
        n == Simulate(t.board, t.macro_board, m,
                      IF current_player = player_symbol THEN 1 ELSE -1)
    IN  minimax_numpy(n.board, n.macro_board, n.active_board, d, -Inf, Inf,
                      is_maximizing)

\* The score of a finished game with remaining depth d: 1000 + d when the
\* AI has won, -(1000 + d) when the other player has, 0 for a draw.
TerminalScore(w, d) ==
    IF w = player_symbol THEN 1000 + d
    ELSE IF w # None THEN -(1000 + d)
    ELSE 0

\* C21: on the position of a move that ends the game _minimax_numpy returns
\* 1000 + d for a win of the searching player, -(1000 + d) for a win of the
\* opponent and 0 for a draw, for every remaining depth d >= 0. With d = 0
\* the test depth <= 0 comes before the test for an empty move list, so a
\* drawn position is scored by the evaluator.
C21_TerminalScores ==
    [][(~game_over /\ game_over') =>
          \A d \in Depths : \A is_maximizing \in BOOLEAN :
              ValueAfter(last_move', d, is_maximizing) = TerminalScore(winner', d)]_vars

\* What holds of the terminal scores: the claim for wins and losses at every
\* depth, and for draws at every depth but 0.
C21_ExceptDrawAtDepthZero ==
    [][(~game_over /\ game_over') =>
          \A d \in Depths : \A is_maximizing \in BOOLEAN :
              (winner' # None \/ d > 0) =>
                  ValueAfter(last_move', d, is_maximizing) = TerminalScore(winner', d)]_vars

\* ------------------------------------------------------------------------
\* C22
\* ------------------------------------------------------------------------

\* _evaluate_numpy on the arrays that _to_numpy builds of the game.
GameScore(g) == evaluate_numpy(to_numpy(g).board, to_numpy(g).macro_board)

\* C22: in every position that is not game-over the score of
\* _evaluate_numpy is smaller in absolute value than 1000, the smallest
\* terminal score. The evaluator adds 500 for every sub-board the AI owns
\* beyond those of the opponent, so two owned sub-boards reach 1000.
C22_EvaluatorBelowTerminal ==
    ~game_over => (GameScore(Game) < 1000 /\ GameScore(Game) > -1000)

\* ------------------------------------------------------------------------
\* C23
\* ------------------------------------------------------------------------

\* The mark of the player to move in the arrays of the search.
Mark == IF current_player = player_symbol THEN 1 ELSE -1

\* The search builds a move list on the position: no line on the macro board.
BuildsMoves(n) == ~AnyLine(n.macro_board, 3) /\ ~AnyLine(n.macro_board, -3)

\* The simulated move m of the player to move and the game after
\* make_move of m agree in the cells, in the macro board and in the move
\* list; in the active board when active is set.
Agree(m, active) ==
    \E t \in {to_numpy(Game)} :
    \E n \in {Simulate(t.board, t.macro_board, m, Mark)} :
    \E r \in {make_move(Game, m[1], m[2], m[3], m[4])} :
    \E u \in {to_numpy(r.game)} :
        /\ r.ret
        /\ n.board = u.board
        /\ n.macro_board = u.macro_board
        /\ active => n.active_board = u.active_board
        /\ BuildsMoves(n) =>
               SearchMoves(n.board, n.macro_board, n.active_board)
                   = get_valid_moves(r.game)

\* The move m ends the game.
Ends(m) == make_move(Game, m[1], m[2], m[3], m[4]).game.game_over

\* C23 as stated: for every legal move of a position that is not game-over
\* the simulation of the search and make_move agree in the cell written,
\* the sub-board winners, the next active board and the move list.
C23_AsStated ==
    ~game_over =>
        \A i \in DOMAIN get_valid_moves(Game) : Agree(get_valid_moves(Game)[i], TRUE)

\* C23: for every legal move of a position that is not game-over the
\* simulation of the search and make_move agree in the cell written and the
\* sub-board winners, in the move list where the search builds one, and
\* in the next active board unless the move ends the game; and the move
\* list that the search builds of the position itself is get_valid_moves().
C23_SimulationAgrees ==
    ~game_over =>
        /\ \E t \in {to_numpy(Game)} :
               SearchMoves(t.board, t.macro_board, t.active_board)
                   = get_valid_moves(Game)
        /\ \A i \in DOMAIN get_valid_moves(Game) :
               Agree(get_valid_moves(Game)[i], ~Ends(get_valid_moves(Game)[i]))

\* A position with a legal move that does not end the game and sends the
\* opponent to a sub-board that is full without a winner, so that the move
\* after it is free.
C23_Witness ==
    /\ ~game_over
    /\ \E i \in DOMAIN get_valid_moves(Game) :
          \E m \in {get_valid_moves(Game)[i]} :
          \E r \in {make_move(Game, m[1], m[2], m[3], m[4])} :
              /\ ~r.game.game_over
              /\ r.game.active_board = NoBoard
              /\ r.game.sub_boards[<<m[3], m[4]>>].winner = None
              /\ is_full(r.game.sub_boards[<<m[3], m[4]>>])


\* ------------------------------------------------------------------------
\* C24: how far the searches look

\* The first line of a call of _minimax_numpy: the first move of the move
\* list is simulated and the call below it is followed in the same way. The
\* first move of a loop is searched whatever alpha and beta are, because
\* the loops test beta <= alpha after the recursive call. plies is the
\* number of moves simulated on the line, over says that the line stops at
\* a line on the macro board or at an empty move list rather than at depth 0.
RECURSIVE FirstLine(_, _, _, _, _)
FirstLine(board, macro_board, next_active, depth, is_maximizing) ==
    IF AnyLine(macro_board, 3) \/ AnyLine(macro_board, -3)
    THEN [plies |-> 0, over |-> TRUE]
    ELSE IF depth <= 0 THEN [plies |-> 0, over |-> FALSE]
    ELSE LET moves == SearchMoves(board, macro_board, next_active)
         IN  IF moves = <<>> THEN [plies |-> 0, over |-> TRUE]
             ELSE LET n == Simulate(board, macro_board, moves[1],
                                    IF is_maximizing THEN 1 ELSE -1)
                      below == FirstLine(n.board, n.macro_board, n.active_board,
                                         depth - 1, ~is_maximizing)
                  IN  [plies |-> 1 + below.plies, over |-> below.over]

\* The first line of the root loop of a difficulty in game g, the root move
\* included: the first move of the list that the loop walks, then the call
\* _minimax_numpy(..., max_depth - 1, alpha, beta, False).
RootLine(g, difficulty_) ==
    LET t == to_numpy(g)
        moves == IF difficulty_ = "MEDIUM" THEN get_valid_moves(g)
                 ELSE SortedMoves(get_valid_moves(g))
        n == Simulate(t.board, t.macro_board, moves[1], 1)
        below == FirstLine(n.board, n.macro_board, n.active_board,
                           SearchDepth(g, difficulty_) - 1, FALSE)
    IN  [plies |-> 1 + below.plies, over |-> below.over]

\* The number of plies that the statement gives for a difficulty and a
\* number of legal root moves.
StatedPlies(difficulty_, n_moves) ==
    IF difficulty_ = "MEDIUM" THEN 2
    ELSE IF n_moves > 30 THEN 4
    ELSE IF n_moves >= 11 THEN 5
    ELSE 6

\* C24: in every position in which the AI is to move, the first line of
\* the Big Brain search is 4 plies long, root move included, when the root
\* has more than 30 legal moves, 5 plies with 11 to 30 and 6 plies with 10
\* or fewer, and the first line of the Medium search is 2 plies long; a
\* line is shorter only where the game ends on it, and never longer. The
\* depth that Big Brain selects is the stated one for each of the 1 to 81
\* numbers of legal moves that a position can have.
C24_LooksAheadStatedPlies ==
    /\ \A n_moves \in 1..81 :
          bigbrain_depth(n_moves) = StatedPlies("BIG_BRAIN", n_moves)
    /\ AITurn =>
          \A difficulty_ \in {"MEDIUM", "BIG_BRAIN"} :
              \E line \in {RootLine(Game, difficulty_)} :
              \E stated \in {StatedPlies(difficulty_, Len(get_valid_moves(Game)))} :
                  /\ line.plies <= stated
                  /\ ~line.over => line.plies = stated

\* The AI is to move on a free turn with more than 30 legal moves, and the
\* first line of Big Brain reaches its leaf after 4 plies.
C24_Witness ==
    /\ AITurn
    /\ Len(get_valid_moves(Game)) > 30
    /\ RootLine(Game, "BIG_BRAIN") = [plies |-> 4, over |-> FALSE]
    /\ RootLine(Game, "MEDIUM") = [plies |-> 2, over |-> FALSE]

\* The AI is to move with 11 to 30 legal moves, and the first line of Big
\* Brain reaches its leaf after 5 plies.
C24_WitnessFive ==
    /\ AITurn
    /\ Len(get_valid_moves(Game)) \in 11..30
    /\ RootLine(Game, "BIG_BRAIN") = [plies |-> 5, over |-> FALSE]

\* The AI is to move with at most 10 legal moves, and the first line of Big
\* Brain reaches its leaf after 6 plies.
C24_WitnessSix ==
    /\ AITurn
    /\ Len(get_valid_moves(Game)) <= 10
    /\ RootLine(Game, "BIG_BRAIN") = [plies |-> 6, over |-> FALSE]

\* The game ends on the first line of a search before its depth is used up.
C24_WitnessShort ==
    /\ AITurn
    /\ RootLine(Game, "BIG_BRAIN").over
    /\ RootLine(Game, "BIG_BRAIN").plies < 6


\* ------------------------------------------------------------------------
\* C25: the order of the root moves of Big Brain

\* The classes of the statement: 1 for a move into the centre cell (1,1) of
\* its sub-board, 2 for a move into a corner cell, 3 for a move into an edge
\* cell.
CellClass(m) ==
    IF <<m[3], m[4]>> = <<1, 1>> THEN 1
    ELSE IF m[3] # 1 /\ m[4] # 1 THEN 2
    ELSE 3

\* The place of move m in a list that holds it once.
IndexOf(moves, m) == CHOOSE i \in DOMAIN moves : moves[i] = m

\* The list that the root loop of _bigbrain_move walks in game g.
RootOrder(g) == SortedMoves(get_valid_moves(g))

\* The root moves of game g whose value under minimax to max_depth plies is
\* the largest of all root moves.
BestRootMoves(g, max_depth) ==
    LET valid_moves_ == get_valid_moves(g)
        value == [i \in DOMAIN valid_moves_ |-> RootValue(g, valid_moves_[i], max_depth)]
        best == SetMax({value[i] : i \in DOMAIN valid_moves_})
    IN  {valid_moves_[i] : i \in {j \in DOMAIN valid_moves_ : value[j] = best}}

\* Big Brain has returned a move in a position where minimax without pruning
\* is computed.
BigBrainCompared == Compared /\ difficulty = "BIG_BRAIN"

\* C25: whenever the AI is to move, the list that the root loop of Big Brain
\* walks holds the legal moves with the moves into centre cells first, then
\* the moves into corner cells, then the moves into edge cells, and inside a
\* class in the order of get_valid_moves; and the move that Big Brain
\* returns is, of the root moves of largest value, the first in this list.
C25_RootOrder ==
    /\ AITurn =>
          \E valid_moves_ \in {get_valid_moves(Game)} :
          \E order \in {RootOrder(Game)} :
              /\ Len(order) = Len(valid_moves_)
              /\ {order[i] : i \in DOMAIN order}
                     = {valid_moves_[i] : i \in DOMAIN valid_moves_}
              /\ \A i \in DOMAIN order : \A j \in DOMAIN order :
                     i < j =>
                        /\ CellClass(order[i]) <= CellClass(order[j])
                        /\ CellClass(order[i]) = CellClass(order[j])
                              => IndexOf(valid_moves_, order[i])
                                    < IndexOf(valid_moves_, order[j])
    /\ BigBrainCompared =>
          \E order \in {RootOrder(Game)} :
          \E best \in {BestRootMoves(Game, SearchDepth(Game, "BIG_BRAIN"))} :
              /\ move \in best
              /\ \A m \in best : IndexOf(order, move) <= IndexOf(order, m)

\* Big Brain has returned a move in a position where the sort changes the
\* order of the legal moves, two root moves or more have the largest value,
\* and the returned move is not the first of them in the order of
\* get_valid_moves.
C25_Witness ==
    /\ BigBrainCompared
    /\ RootOrder(Game) # get_valid_moves(Game)
    /\ \E best \in {BestRootMoves(Game, SearchDepth(Game, "BIG_BRAIN"))} :
          /\ Cardinality(best) >= 2
          /\ \E m \in best : IndexOf(get_valid_moves(Game), m)
                                < IndexOf(get_valid_moves(Game), move)


\* ------------------------------------------------------------------------
\* C26: the search terminates

\* The number of occupied cells of a board of the search.
Occupied(board) ==
    Cardinality({c \in (1..9) \X (1..9) : board[c[1]][c[2]] # 0})

\* The call of frame f returns without a loop: depth <= 0, a line on the
\* macro board, or no move.
Stops(f) ==
    \/ f.depth <= 0
    \/ AnyLine(f.macro_board, 3) \/ AnyLine(f.macro_board, -3)
    \/ SearchMoves(f.board, f.macro_board, f.next_active) = <<>>

\* Each call on the stack was made with the depth of its caller less one on
\* a position with one more occupied cell; no depth is negative; and a call
\* of _minimax_numpy has returned at once exactly if its depth is used up,
\* the game is won or lost, or there is no move.
Measure ==
    /\ \A j \in 1..(Len(stack) - 1) :
          /\ stack[j + 1].depth = stack[j].depth - 1
          /\ Occupied(stack[j + 1].board) = Occupied(stack[j].board) + 1
    /\ \A j \in 1..Len(stack) :
          /\ stack[j].depth >= 0
          /\ j > 1 => (stack[j].kind = "return" <=> Stops(stack[j]))

\* C26: every call of _minimax_numpy is made with depth - 1 on a position
\* with one more occupied cell and stops at depth <= 0, at a won or lost
\* position or when no move exists, and every get_move call whose search
\* has begun returns.
C26_SearchTerminates == []Measure /\ (SearchRunning ~> called)

\* The search of Big Brain is six calls below its root loop, and the
\* innermost call has returned the score of the evaluator at depth 0.
C26_Witness ==
    /\ difficulty = "BIG_BRAIN"
    /\ Len(stack) = 7
    /\ stack[7].kind = "return" /\ stack[7].depth = 0
    /\ ~AnyLine(stack[7].macro_board, 3) /\ ~AnyLine(stack[7].macro_board, -3)

\* A search has ended with a move.
C26_WitnessReturned ==
    called /\ difficulty \in {"MEDIUM", "BIG_BRAIN"} /\ move \in Args

\* The stepwise search has returned what get_move returns.
C26_StepwiseIsGetMove == called => move \in get_move(Game, difficulty)


\* ------------------------------------------------------------------------
\* C27: the order of get_valid_moves

\* Tuple a comes before tuple b in lexicographic order.
LexLess(a, b) ==
    \E i \in 1..4 : a[i] < b[i] /\ \A j \in 1..(i - 1) : a[j] = b[j]

\* C27: in every reachable state the tuples that get_valid_moves() returns
\* are in strictly increasing lexicographic order of (board_row, board_col,
\* cell_row, cell_col), so that no tuple is returned twice.
C27_ValidMovesIncrease ==
    \E valid_moves_ \in {get_valid_moves(Game)} :
        \A i \in DOMAIN valid_moves_ : \A j \in DOMAIN valid_moves_ :
            i < j => /\ LexLess(valid_moves_[i], valid_moves_[j])
                     /\ valid_moves_[i] # valid_moves_[j]

\* A free turn in the middle of a game: get_valid_moves() returns the empty
\* cells of several sub-boards, and not of all nine.
C27_Witness ==
    /\ k > 0 /\ ~game_over /\ active_board = NoBoard
    /\ \E valid_moves_ \in {get_valid_moves(Game)} :
          /\ Cardinality({<<valid_moves_[i][1], valid_moves_[i][2]>> :
                             i \in DOMAIN valid_moves_}) \in 2..8
          /\ \E i \in DOMAIN valid_moves_ :
                /\ i < Len(valid_moves_)
                /\ valid_moves_[i][1] < valid_moves_[i + 1][1]
                /\ valid_moves_[i][3] > valid_moves_[i + 1][3]


\* ------------------------------------------------------------------------
\* C28: the move that main applies

\* main is about to apply the move in the result container: the AI branch is
\* taken, the thread has ended, and the container holds a move.
AIApplies ==
    /\ main_pc = "game_loop"
    /\ ai_waiting /\ ~game_over
    /\ ai_thread # None /\ ~is_alive
    /\ ai_result_container[1] # NoMove

\* C28: whenever main applies the move of the thread, get_move was called on
\* the object that the name game is bound to, and no move has been made on
\* that object since the thread was started, so the move was computed for
\* the position it is applied to.
C28_AppliedMoveIsForThisPosition ==
    AIApplies => /\ t_game = game_id
                 /\ \A x \in moved : x[1] # game_id

\* The same for the object alone: the move was computed on the object that
\* it is applied to.
C28_AppliedMoveIsForThisGame == AIApplies => t_game = game_id

\* main is never about to apply a move that was computed on the game object
\* before the restart and that the new game accepts.
C28_NoStaleMoveAccepted ==
    ~(/\ AIApplies
      /\ t_game # game_id
      /\ make_move(Game, ai_result_container[1][1], ai_result_container[1][2],
                   ai_result_container[1][3], ai_result_container[1][4]).ret)


\* ------------------------------------------------------------------------
\* C29: the AI's turn comes to an end

\* One-player mode in the game loop with O to move in an open game.
AIOwesMove ==
    /\ difficulty # None
    /\ main_pc = "game_loop"
    /\ current_player = player_symbol
    /\ ~game_over

\* No search is pending: main does not wait for the AI and holds no thread.
NoSearchPending == ~ai_waiting /\ ai_thread = None

\* C29: the game is never in a state in which O is to move in an open
\* one-player game and no search is pending. In such a state main starts no
\* thread, because ai_waiting is False, and accepts no click, because it is
\* not X's turn, so the AI move that the accepted human move asks for is
\* never applied.
C29_AITurnHasSearchPending == AIOwesMove => ~NoSearchPending

\* Once O is to move with no search pending, the game stays so until the
\* user restarts it or leaves it: no step of main or of a thread ends it.
C29_StuckUntilRestart ==
    [][(AIOwesMove /\ NoSearchPending)
          => \/ (AIOwesMove /\ NoSearchPending)'
             \/ game_id' # game_id
             \/ main_pc' # main_pc]_vars

\* The game is in that state because main has taken None from the result
\* container: the thread had read the new game before the human's click,
\* when it was X's turn.
C29_NoneResultIsNotTaken ==
    ~(AIOwesMove /\ NoSearchPending /\ ai_result_container[1] = NoMove)

\* The game is in that state because the new game has rejected the move
\* that was computed on the game before the restart.
C29_StaleMoveIsNotRejected ==
    ~(AIOwesMove /\ NoSearchPending /\ ai_result_container[1] # NoMove)


\* ------------------------------------------------------------------------
\* C30: one search thread

\* C30: in every state of main, across games, restarts and returns to the
\* menus, at most one Thread object that main has started has not ended,
\* and main has started at most one thread since the last accepted click.
C30_OneSearchThread == alive <= 1 /\ searches <= 1

\* After a restart main waits for the AI again while the thread of the game
\* before is still running; main has started no thread for this turn.
C30_Witness ==
    /\ game_id > 1
    /\ main_pc = "game_loop"
    /\ ai_waiting /\ ~game_over
    /\ is_alive /\ alive = 1
    /\ searches = 0


\* ------------------------------------------------------------------------
\* C31: who places which mark in one-player mode
\* ------------------------------------------------------------------------

\* ai_player is not None.
OnePlayer == difficulty # None

\* A step that writes a mark on the object bound to game.
Placed == game_id' = game_id /\ sub_boards' # sub_boards

\* The mark that the step has written.
PlacedMark ==
    sub_boards'[<<last_move'[1], last_move'[2]>>]
        .cells[<<last_move'[3], last_move'[4]>>]

\* The click branch of the game loop leaves the thread and its container
\* alone; the AI branch is taken while ai_waiting with a thread that has
\* ended, and it forgets the thread and stops waiting.
ByClick == ai_thread' = ai_thread /\ ai_result_container' = ai_result_container
ByAI ==
    /\ ai_waiting /\ ~ai_waiting'
    /\ ai_thread # None /\ ~is_alive /\ ai_thread' = None
    /\ last_move' = ai_result_container[1]

\* C31: in one-player mode every step that writes a mark is either a click
\* on X's turn that writes an X or the AI branch on O's turn that writes an
\* O; a click never writes while current_player is O.
C31_ClicksPlaceXAndAIPlacesO ==
    [][OnePlayer /\ Placed =>
          \/ current_player = "X" /\ PlacedMark = "X" /\ ByClick /\ ~ByAI
          \/ current_player = "O" /\ PlacedMark = "O" /\ ByAI]_vars

\* The AI branch has just written an O in a one-player game.
C31_Witness ==
    /\ main_pc = "game_loop" /\ OnePlayer
    /\ ret /\ last_move # NoMove /\ ai_thread = None /\ ~ai_waiting
    /\ current_player = "X"
    /\ sub_boards[<<last_move[1], last_move[2]>>]
           .cells[<<last_move[3], last_move[4]>>] = "O"

\* A click has just written an X in a one-player game and the AI is waited
\* for.
C31_WitnessClick ==
    /\ main_pc = "game_loop" /\ OnePlayer
    /\ ret /\ last_move # NoMove /\ ai_waiting
    /\ current_player = "O"
    /\ sub_boards[<<last_move[1], last_move[2]>>]
           .cells[<<last_move[3], last_move[4]>>] = "X"


\* ------------------------------------------------------------------------
\* C32: the end-of-game effects
\* ------------------------------------------------------------------------

\* No game object has had its effects more than once, and they are played
\* for a game that is over, with the sound that fits its winner.
AtMostOnce ==
    /\ \A g \in DOMAIN effects : Len(effects[g]) <= 1
    /\ effects[game_id] # <<>> => game_over /\ ~just_ended
    /\ (game_over /\ ~just_ended) => effects[game_id] = <<Effect(Game)>>

\* The object bound to game is replaced while its effects are due.
Dropped == just_ended /\ game_id' # game_id

\* C32 as stated: the effects are played exactly once for every finished
\* game: never twice, with 'win' for a winner and 'sad' for a draw, the flag
\* is consumed by the frame that raised it and no finished game is left
\* without its effects.
C32_AsStated ==
    /\ []AtMostOnce
    /\ [][~Dropped]_vars
    /\ (just_ended ~> ~just_ended)

\* C32: the effects are played at most once for every finished game, with
\* 'win' for a winner and 'sad' for a draw, and the flag is always consumed;
\* they are played exactly once unless the R key is handled in the frame of
\* the click that ended the game, after that click: then the object is
\* replaced before the trigger and its effects are never played.
C32_EffectsAtMostOnce ==
    /\ []AtMostOnce
    /\ [][Dropped => /\ main_pc = "game_loop" /\ main_pc' = "game_loop"
                     /\ effects[game_id] = <<>>
                     /\ effects' = Append(effects, <<>>)]_vars
    /\ (just_ended ~> ~just_ended)

\* The AI has won a one-player game and the effects have been played once.
C32_Witness ==
    /\ OnePlayer /\ game_over /\ winner = "O" /\ ~just_ended
    /\ effects[game_id] = <<"win">>

\* A click has ended a game in a draw and 'sad' has been played once.
C32_WitnessDraw ==
    /\ game_over /\ winner = None /\ ~just_ended
    /\ effects[game_id] = <<"sad">>

\* A click has ended the game and its frame has not reached the trigger.
C32_WitnessPending == just_ended /\ effects[game_id] = <<>>


\* ------------------------------------------------------------------------
\* C33: the marks on the board and the player to move
\* ------------------------------------------------------------------------

\* How many of the 81 cells hold the symbol p.
Marks(p) ==
    Cardinality({bq \in Pos \X Pos : sub_boards[bq[1]].cells[bq[2]] = p})

\* C33: X has as many marks as O or one more; while the game is not over X
\* is to move exactly when the counts are equal and O exactly when X has
\* one more.
C33_MarksAndTurn ==
    /\ Marks("X") - Marks("O") \in {0, 1}
    /\ ~game_over =>
          /\ current_player = "X" <=> Marks("X") = Marks("O")
          /\ current_player = "O" <=> Marks("X") = Marks("O") + 1

\* O is to move in a running game after an accepted move of X, with marks
\* of both players on the board.
C33_Witness ==
    /\ ~game_over /\ ret /\ current_player = "O"
    /\ Marks("O") >= 3 /\ Marks("X") = Marks("O") + 1

\* The game has ended with as many marks of O as of X.
C33_WitnessOver == game_over /\ Marks("X") = Marks("O") /\ Marks("X") > 0

\* ------------------------------------------------------------------------
\* C34: the active board is playable
\* ------------------------------------------------------------------------

\* C34: while the game is not over active_board is None or the index of a
\* sub-board that has no winner and an empty cell.
C34_ActiveBoardIsPlayable ==
    ~game_over => active_board = NoBoard \/ Playable(active_board)

\* The last accepted move pointed at a sub-board that is won or full, and
\* the player to move is free; and elsewhere the player is held to a board.
C34_Witness ==
    /\ ~game_over /\ ret /\ last_move # NoMove
    /\ active_board = NoBoard
    /\ ~Playable(<<last_move[3], last_move[4]>>)

C34_WitnessHeld ==
    /\ ~game_over /\ ret /\ active_board # NoBoard
    /\ \E b \in Pos : ~Playable(b)

\* ------------------------------------------------------------------------
\* C35: the lines that one move completes
\* ------------------------------------------------------------------------

\* The lines of three identical symbols in the cells of sub-board sb.
CompleteLines(sb) ==
    {L \in Lines : \E p \in Players : \A q \in L : sb.cells[q] = p}

\* The sub-board that the step has moved in, after the move.
MovedIn == sub_boards'[<<last_move'[1], last_move'[2]>>]

\* C35 as stated: after an accepted move at most one line of the sub-board
\* moved in is complete.
C35_AsStated == [][Accepted => Cardinality(CompleteLines(MovedIn)) <= 1]_vars

\* C35: after an accepted move every complete line of the sub-board moved
\* in goes through the cell just played and holds the mover's symbol, there
\* are at most three of them, and the sub-board has the mover as winner
\* exactly when there is one: the order of the checks does not matter.
C35_CompletedLinesAreTheMovers ==
    [][Accepted =>
          /\ \A L \in CompleteLines(MovedIn) :
                /\ <<last_move'[3], last_move'[4]>> \in L
                /\ \A q \in L : MovedIn.cells[q] = current_player
          /\ Cardinality(CompleteLines(MovedIn)) <= 3
          /\ MovedIn.winner =
                IF CompleteLines(MovedIn) # {} THEN current_player ELSE None
      ]_vars

\* X has just completed the middle row, the middle column and a diagonal
\* of sub-board (1,1) with one move.
C35_Witness ==
    /\ ret /\ last_move = <<1, 1, 1, 1>>
    /\ Cardinality(CompleteLines(sub_boards[<<1, 1>>])) = 3
    /\ sub_boards[<<1, 1>>].winner = "X"

\* A move has completed exactly one line.
C35_WitnessOne ==
    /\ ret /\ last_move # NoMove
    /\ Cardinality(CompleteLines(sub_boards[<<last_move[1], last_move[2]>>])) = 1


\* ------------------------------------------------------------------------
\* C36: the weight of a sub-board in the evaluator
\* ------------------------------------------------------------------------

\* The arrays of the empty game.
EmptyBoard == to_numpy(Game_init).board
EmptyMacro == to_numpy(Game_init).macro_board
EmptyCells == Slice(EmptyBoard, 0, 0)

\* The 9x9 array with the cells of sub-board (br, bc) replaced by the 3x3
\* array cells.
Put(board, br, bc, cells) ==
    LET cell(r, c) == IF r \div 3 = br /\ c \div 3 = bc
                      THEN cells[(r % 3) + 1][(c % 3) + 1]
                      ELSE board[r + 1][c + 1]
        row(r) == << cell(r, 0), cell(r, 1), cell(r, 2), cell(r, 3), cell(r, 4),
                     cell(r, 5), cell(r, 6), cell(r, 7), cell(r, 8) >>
    IN  << row(0), row(1), row(2), row(3), row(4), row(5), row(6), row(7),
           row(8) >>

\* What the cells of sub-board (br, bc) add to the score of the position:
\* the score less the score of the position with that sub-board emptied.
Contribution(board, macro_board, br, bc) ==
    evaluate_numpy(board, macro_board)
        - evaluate_numpy(Put(board, br, bc, EmptyCells), macro_board)

\* The local score of a cell configuration: what it adds in an edge
\* sub-board, where the multiplier is 1.
LocalScore(cells) ==
    Contribution(Put(EmptyBoard, 0, 1, cells), EmptyMacro, 0, 1)

\* The multipliers of the specification: 3 for the centre sub-board, 2 for
\* a corner, 1 for an edge.
Multiplier(br, bc) ==
    IF br = 1 /\ bc = 1 THEN 3 ELSE IF br # 1 /\ bc # 1 THEN 2 ELSE 1

\* C36: in the score of every position each playable sub-board counts with
\* its local score times 3 in the centre, times 2 in a corner and times 1
\* on an edge.
C36_PositionalMultipliers ==
    \A b \in Pos :
        is_playable(sub_boards[b]) =>
            Contribution(to_numpy(Game).board, to_numpy(Game).macro_board,
                         b[1], b[2])
                = Multiplier(b[1], b[2])
                      * LocalScore(Slice(to_numpy(Game).board, b[1], b[2]))

\* What the code computes: every sub-board without owner counts with twice
\* the balance of its marks, wherever it lies.
C36_SameWeightEverywhere ==
    \A b \in Pos :
        to_numpy(Game).macro_board[b[1] + 1][b[2] + 1] = 0 =>
            Contribution(to_numpy(Game).board, to_numpy(Game).macro_board,
                         b[1], b[2])
                = 2 * Sum9(Slice(to_numpy(Game).board, b[1], b[2]))

\* ------------------------------------------------------------------------
\* C37: the evaluator with the players' roles swapped
\* ------------------------------------------------------------------------

\* -a for a 3x3 and for a 9x9 array.
Negated3(a) ==
    << << -a[1][1], -a[1][2], -a[1][3] >>,
       << -a[2][1], -a[2][2], -a[2][3] >>,
       << -a[3][1], -a[3][2], -a[3][3] >> >>

Negated9(a) ==
    LET row(r) == << -a[r][1], -a[r][2], -a[r][3], -a[r][4], -a[r][5],
                     -a[r][6], -a[r][7], -a[r][8], -a[r][9] >>
    IN  << row(1), row(2), row(3), row(4), row(5), row(6), row(7), row(8),
           row(9) >>

\* The score of the game with the roles of the two players swapped.
SwappedScore(g) ==
    evaluate_numpy(Negated9(to_numpy(g).board),
                   Negated3(to_numpy(g).macro_board))

\* C37: the score of every position with the roles swapped is the negation
\* of its score.
C37_ZeroSum == SwappedScore(Game) = -GameScore(Game)

\* What the code computes: the two scores cancel except for the 50 that
\* only the AI gets for the centre sub-board, whoever owns it.
C37_ZeroSumButCentreBonus ==
    SwappedScore(Game) + GameScore(Game)
        = IF to_numpy(Game).macro_board[2][2] # 0 THEN 50 ELSE 0

\* ------------------------------------------------------------------------
\* C38
\* ------------------------------------------------------------------------

\* The rules invariants of the game the variables hold: a sub-board with a
\* winner has a complete line of that winner in its cells, and a game that
\* is over has a line of sub-board winners or no playable sub-board.
RulesInvariants ==
    /\ \A b \in Pos :
          sub_boards[b].winner # None
              => HasLine(sub_boards[b].cells, sub_boards[b].winner)
    /\ game_over =>
          \/ \E p \in Players : HasLine(Winners, p)
          \/ \A b \in Pos : ~Playable(b)

\* The step leaves the game as it is, or clears just_ended only, or is an
\* accepted make_move call, with or without the clearing of just_ended that
\* follows it in the same frame, or binds the name to a new game object.
ByMakeMoveOnly ==
    \/ UNCHANGED game_vars
    \/ Game' = [Game EXCEPT !.just_ended = FALSE]
    \/ Game' = Game_init
    \/ \E a \in Args :
          \E r \in {make_move(Game, a[1], a[2], a[3], a[4])} :
              /\ r.ret
              /\ \/ Game' = r.game
                 \/ Game' = [r.game EXCEPT !.just_ended = FALSE]

\* C38: every game object the program holds is modified only through
\* make_move, so the demo game of the tutorial satisfies the rules
\* invariants at every tutorial step: a sub-board winner implies a line in
\* its cells, and game_over implies a meta-line or no playable sub-board.
\* _setup_demo_board writes winners, cells, current_player, active_board and
\* game_over directly; at WIN_CONDITION three sub-boards have the winner X
\* and no mark in their cells.
C38_DemoGameSatisfiesRules == main_pc = "tutorial" => RulesInvariants

\* The first half of the claim for the demo game: while the tutorial runs,
\* its game changes by make_move only.
C38_DemoGameModifiedByMakeMoveOnly ==
    [][main_pc = "tutorial" /\ main_pc' = "tutorial" => ByMakeMoveOnly]_vars

\* The claim for the game of the game loop, which main changes by make_move
\* and by clearing just_ended only.
C38_PlayedGameSatisfiesRules == main_pc = "game_loop" => RulesInvariants

\* The game of the game loop changes by make_move only.
C38_PlayedGameModifiedByMakeMoveOnly ==
    [][main_pc = "game_loop" /\ main_pc' = "game_loop" => ByMakeMoveOnly]_vars

\* The tutorial shows the step WIN_CONDITION.
C38_WinConditionShown == main_pc = "tutorial" /\ current_step = WIN_CONDITION

\* ------------------------------------------------------------------------
\* C39
\* ------------------------------------------------------------------------

\* The fields the claim names: the cells and winners of the demo game, its
\* current_player, active_board, game_over and winner, and the tutorial's
\* current_step and step_substep.
NamedFields(T) ==
    <<T.demo_game.sub_boards, T.demo_game.current_player,
      T.demo_game.active_board, T.demo_game.game_over, T.demo_game.winner,
      T.current_step, T.step_substep>>

\* The tutorial runs and shows a step other than the last.
BeforeLastStep == main_pc = "tutorial" /\ current_step # COMPLETE

\* C39: at every tutorial step other than the last, _next_step followed
\* immediately by _previous_step leaves the cells, the sub-board winners,
\* current_player, active_board, game_over and winner of the demo game, and
\* current_step and step_substep, as they were before _next_step.
C39_NextThenPreviousRestores ==
    BeforeLastStep
        => NamedFields(previous_step(next_step(Tutorial))) = NamedFields(Tutorial)

\* The round trip is not idle: the demo game holds an X, and _next_step
\* writes a mark into it and hands the turn over.
C39_Witness ==
    /\ BeforeLastStep
    /\ XCells(Game) # {}
    /\ next_step(Tutorial).demo_game.sub_boards # sub_boards
    /\ next_step(Tutorial).demo_game.current_player # current_player

\* The round trip from a step that the user reached with Back, so that the
\* history already held a state of the step.
C39_WitnessSavedTwice ==
    /\ BeforeLastStep
    /\ current_step \in DOMAIN board_history
    /\ SavedState(Tutorial) # board_history[current_step]

\* From the last step _next_step stays and _previous_step goes one step
\* back, so the round trip does not restore current_step there.
C39_LastStepIsNotRestored ==
    main_pc = "tutorial" /\ current_step = COMPLETE
        => previous_step(next_step(Tutorial)).current_step = PRACTICE_MODE

\* ------------------------------------------------------------------------
\* C40
\* ------------------------------------------------------------------------

\* The game that the clone is.
CloneGame == Deref(new_game[1])

\* The step is the call of clone().
Cloned == new_game = <<>> /\ new_game' # <<>>

\* The step is an accepted make_move call on the clone.
MovedOnClone == clone_moves' # clone_moves

\* The step changes the original while the clone exists.
MovedOnOriginal ==
    new_game # <<>> /\ ~MovedOnClone /\ game_vars' # game_vars

\* C40: clone() returns a game equal to the original in its cells, its
\* sub-board winners, current_player, active_board, winner, game_over and
\* just_ended; a make_move call on the clone leaves every field of the
\* original as it was, and a make_move call on the original leaves every
\* field of the clone as it was.
C40_CloneIsEqualAndIndependent ==
    [][/\ Cloned => CloneGame' = Game'
       /\ MovedOnClone => UNCHANGED game_vars
       /\ MovedOnOriginal => CloneGame' = CloneGame]_vars

\* The cells in which the game g has a mark and the game h has none.
MarksOnlyIn(g, h) ==
    {a \in Args : /\ g.sub_boards[<<a[1], a[2]>>].cells[<<a[3], a[4]>>] # None
                  /\ h.sub_boards[<<a[1], a[2]>>].cells[<<a[3], a[4]>>] = None}

\* After the clone was made a move was accepted on it and another on the
\* original: each of the two games has a mark that the other has not.
C40_Witness ==
    /\ new_game # <<>>
    /\ clone_moves > 0
    /\ MarksOnlyIn(CloneGame, Game) # {}
    /\ MarksOnlyIn(Game, CloneGame) # {}

\* A clone was made of a finished game, with a sub-board winner and the
\* flag just_ended among the copied fields.
C40_WitnessOver ==
    /\ new_game # <<>>
    /\ CloneGame.game_over /\ CloneGame.just_ended
    /\ CloneGame.winner # None

====
